---- MODULE Spec2Model ----
(***************************************************************************)
(* Model of the container-assignment and tab-redirection logic of          *)
(* multi-account-containers.  Two source variants are modelled side by     *)
(* side: variant 1 is src/src-refactor/background-page-1.ts, variant 2 is  *)
(* src/src-refactor/background-page/background-page.ts.                    *)
(*                                                                         *)
(* JavaScript strings are sequences of one-character strings, so that      *)
(* prefix stripping, concatenation and URL parsing are computed.           *)
(***************************************************************************)
EXTENDS Integers, Sequences, FiniteSets, TLC

\* undefined / null where a string is expected: a sequence no string equals
Null == <<"undefined">>
\* undefined / null where an object is expected
NoRecord == [undefined |-> TRUE]
\* no tab id (tab ids are positive)
NoTab == 0
\* no window id, no index and no awaiting invocation in a tabs.create call
NoWindow == 0
NoIndex == -1
NoPid == 0

---------------------------------------------------------------------------
(* String literals of the source.                                          *)

\* getCookieStoreId / getUserContextIdFromCookieStoreId: 'firefox-container-'
ContainerPrefix == <<"f","i","r","e","f","o","x","-","c","o","n","t","a","i","n","e","r","-">>
FirefoxDefault == <<"f","i","r","e","f","o","x","-","d","e","f","a","u","l","t">>
FirefoxPrivate == <<"f","i","r","e","f","o","x","-","p","r","i","v","a","t","e">>
\* getSiteStoreKey: storagePrefix
SiteStoragePrefix == <<"s","i","t","e","C","o","n","t","a","i","n","e","r","M","a","p","@","@","_">>
\* getContainerStoreKey: storagePrefix
IdentityStoragePrefix == <<"i","d","e","n","t","i","t","i","e","s","S","t","a","t","e","@","@","_">>
AboutProtocol == <<"a","b","o","u","t",":">>
ChromeProtocol == <<"c","h","r","o","m","e",":">>
MozExtensionProtocol == <<"m","o","z","-","e","x","t","e","n","s","i","o","n",":">>
HttpProtocol == <<"h","t","t","p",":">>
HttpsProtocol == <<"h","t","t","p","s",":">>
\* String(false)
FalseString == <<"f","a","l","s","e">>
\* String(undefined)
UndefinedString == <<"u","n","d","e","f","i","n","e","d">>

NEW_TAB_PAGES ==
  { <<"a","b","o","u","t",":","s","t","a","r","t","p","a","g","e">>,
    <<"a","b","o","u","t",":","n","e","w","t","a","b">>,
    <<"a","b","o","u","t",":","h","o","m","e">>,
    <<"a","b","o","u","t",":","b","l","a","n","k">> }

DEFAULT_TAB == <<"a","b","o","u","t",":","n","e","w","t","a","b">>

---------------------------------------------------------------------------
(* String helpers (String.prototype.replace with a string pattern, and the *)
(* parts of the URL parser the source reads: protocol, hostname, port).    *)

RECURSIVE IndexFrom(_, _, _)
\* least i >= from with s[i] = c, or 0
IndexFrom(s, c, from) ==
  IF from > Len(s) THEN 0
  ELSE IF s[from] = c THEN from
  ELSE IndexFrom(s, c, from + 1)

StartsWithAt(s, p, i) ==
  /\ i + Len(p) - 1 <= Len(s)
  /\ SubSeq(s, i, i + Len(p) - 1) = p

RECURSIVE FindFrom(_, _, _)
\* least i >= from where p occurs in s, or 0
FindFrom(s, p, from) ==
  IF from + Len(p) - 1 > Len(s) THEN 0
  ELSE IF StartsWithAt(s, p, from) THEN from
  ELSE FindFrom(s, p, from + 1)

\* s.replace(p, ''): the first occurrence of p is removed
ReplaceFirstWithEmpty(s, p) ==
  LET i == FindFrom(s, p, 1)
  IN  IF i = 0 THEN s
      ELSE SubSeq(s, 1, i - 1) \o SubSeq(s, i + Len(p), Len(s))

\* new URL(url).protocol: the scheme with its colon
UrlProtocol(url) == SubSeq(url, 1, IndexFrom(url, ":", 1))

IsSpecialScheme(protocol) == protocol \in {HttpProtocol, HttpsProtocol}

\* the scheme's default port, which the URL parser drops
DefaultPort(protocol) ==
  IF protocol = HttpProtocol THEN <<"8","0">>
  ELSE IF protocol = HttpsProtocol THEN <<"4","4","3">>
  ELSE <<>>

\* the authority "host[:port]" of a url "scheme://authority/path", or empty
UrlAuthority(url) ==
  LET c == IndexFrom(url, ":", 1)
  IN  IF StartsWithAt(url, <<"/","/">>, c + 1)
      THEN LET slash == IndexFrom(url, "/", c + 3)
               last == IF slash = 0 THEN Len(url) ELSE slash - 1
           IN  SubSeq(url, c + 3, last)
      ELSE <<>>

\* new URL(url).hostname
UrlHostname(url) ==
  LET a == UrlAuthority(url)
      c == IndexFrom(a, ":", 1)
  IN  IF c = 0 THEN a ELSE SubSeq(a, 1, c - 1)

\* new URL(url).port: empty when absent or when it is the scheme's default
UrlPort(url) ==
  LET a == UrlAuthority(url)
      c == IndexFrom(a, ":", 1)
      explicit == IF c = 0 THEN <<>> ELSE SubSeq(a, c + 1, Len(a))
  IN  IF explicit = DefaultPort(UrlProtocol(url)) THEN <<>> ELSE explicit

---------------------------------------------------------------------------
(* Pure functions of the source.                                           *)

\* a slip: chrome: pages are let through
isPermissibleURL_NoChrome(url) ==
  IF url = Null THEN FALSE
  ELSE LET protocol == UrlProtocol(url)
       IN  ~ (protocol = AboutProtocol \/ protocol = MozExtensionProtocol)

\* url = Null models undefined.  Variant 1 returns false for it; variant 2
\* evaluates new URL(undefined), which throws (see isPermissibleURLThrows).
isPermissibleURL(url) ==
  IF url = Null THEN FALSE
  ELSE LET protocol == UrlProtocol(url)
       IN  ~ (protocol = AboutProtocol \/ protocol = ChromeProtocol
                \/ protocol = MozExtensionProtocol)

isPermissibleURLThrows(v, url) == v = 2 /\ url = Null

\* a slip: the prefix is left out
getCookieStoreId_NoPrefix(userContextId) == userContextId

getCookieStoreId(userContextId) == ContainerPrefix \o userContextId

\* a slip: the string is returned also when nothing was taken from it
getUserContextIdFromCookieStoreId_Unchecked(cookieStoreId) ==
  IF cookieStoreId = Null \/ cookieStoreId = <<>> THEN Null
  ELSE ReplaceFirstWithEmpty(cookieStoreId, ContainerPrefix)

\* Null models variant 1's undefined and variant 2's false (both falsy,
\* both different from every string)
getUserContextIdFromCookieStoreId(cookieStoreId) ==
  IF cookieStoreId = Null \/ cookieStoreId = <<>> THEN Null
  ELSE LET container == ReplaceFirstWithEmpty(cookieStoreId, ContainerPrefix)
       IN  IF container # cookieStoreId THEN container ELSE Null

\* a slip: the port is appended whatever its value
getSiteStoreKey_PortAlways(pageUrl) ==
  SiteStoragePrefix \o UrlHostname(pageUrl) \o UrlPort(pageUrl)

getSiteStoreKey(pageUrl) ==
  IF UrlPort(pageUrl) = <<"8","0">> \/ UrlPort(pageUrl) = <<"4","4","3">>
  THEN SiteStoragePrefix \o UrlHostname(pageUrl)
  ELSE SiteStoragePrefix \o UrlHostname(pageUrl) \o UrlPort(pageUrl)

getContainerStoreKey(cookieStoreId) == IdentityStoragePrefix \o cookieStoreId

---------------------------------------------------------------------------
(* JavaScript values stored under userContextId: a string or a number.    *)

JsString(s) == [t |-> "string", v |-> s]
JsNumber(s) == [t |-> "number", v |-> s]
\* String(x)
String(x) == x.v
\* !x for a string or a number
Falsy(x) == (x.t = "string" /\ x.v = <<>>) \/ (x.t = "number" /\ x.v = <<"0">>)

RemoveAt(seq, i) == SubSeq(seq, 1, i - 1) \o SubSeq(seq, i + 1, Len(seq))

RECURSIVE SeqToSet(_)
SeqToSet(seq) == IF seq = <<>> THEN {} ELSE {Head(seq)} \cup SeqToSet(Tail(seq))

RECURSIVE FilterSeq(_, _)
\* the elements of seq whose id is not in ids, in order
FilterSeq(seq, ids) ==
  IF seq = <<>> THEN <<>>
  ELSE IF Head(seq).id \in ids THEN FilterSeq(Tail(seq), ids)
  ELSE <<Head(seq)>> \o FilterSeq(Tail(seq), ids)

---------------------------------------------------------------------------
VARIABLES
  variant,           \* 1: background-page-1.ts, 2: background-page/background-page.ts
  identities,        \* browser.contextualIdentities: the userContextIds that exist
  tabs,              \* the browser's open tabs, in tab-strip order
  storage,           \* browser.storage.local: key -> value
  exemptedTabs,      \* exemptedTabs: site key -> list of tab ids
  canceledRequests,  \* canceledRequests: tab id -> {requestIds, urls}
  ledgerTimers,      \* pending setTimeout(..., 2000) of onBeforeRequest, per tab id
  lastCreatedTab,    \* lastCreatedTab (its id), NoTab for null
  lastCreatedTimers, \* pending setTimeout(..., LAST_CREATED_TAB_TIMER)
  unhideQueue,       \* unhideQueue
  nav,               \* onBeforeRequest invocations in flight
  procs,             \* other asynchronous invocations in flight
  createCalls,       \* browser.tabs.create calls issued, not yet carried out
  removeCalls,       \* browser.tabs.remove calls issued and not awaited, not yet carried out
  response,          \* what the last onBeforeRequest invocation returned
  navCount,          \* navigation events delivered so far
  moveCalls,         \* browser.tabs.move calls issued and not awaited, not yet carried out
  nextTabId,         \* the id the browser gives the next tab it creates
  nextWindowId,      \* the id the browser gives the next window it creates
  nextPid,           \* number of the next asynchronous invocation
  opCount,           \* messages and user actions delivered so far
  done,              \* resolved deleteContainer calls: the userContextId of {done: true, userContextId}
  fnIn, fnOut,       \* argument and result of the operation under test
  externalExtensionAllowed,  \* externalExtensionAllowed: the sender ids with true
  management,        \* browser.management: extension id -> what is installed under it
  contextMenu        \* browser.contextMenus: the ids of the items removeContextMenu removes

vars == << variant, identities, tabs, storage, exemptedTabs, canceledRequests,
           ledgerTimers, lastCreatedTab, lastCreatedTimers, unhideQueue, nav,
           procs, createCalls, removeCalls, response, navCount, moveCalls,
           nextTabId, nextWindowId, nextPid, opCount, done, fnIn, fnOut,
           externalExtensionAllowed, management, contextMenu >>

browserVars == << identities, tabs, storage >>
navVars == << exemptedTabs, canceledRequests, ledgerTimers, lastCreatedTab,
              lastCreatedTimers, nav, response, navCount, removeCalls >>
fnVars == << fnIn, fnOut >>
externalVars == << externalExtensionAllowed, management >>
hideVars == << moveCalls, nextTabId, nextWindowId, nextPid, opCount >>

---------------------------------------------------------------------------
(* Tabs.                                                                   *)

Tab(id, windowId, cookieStoreId, url, pinned, active, incognito, openerTabId) ==
  [ id |-> id, windowId |-> windowId, cookieStoreId |-> cookieStoreId,
    url |-> url, pinned |-> pinned, active |-> active,
    incognito |-> incognito, openerTabId |-> openerTabId ]

OpenTabIds == { tabs[k].id : k \in DOMAIN tabs }

TabPos(id) == CHOOSE k \in DOMAIN tabs : tabs[k].id = id

\* tab.index: the tab's position in its window, from 0
TabIndex(id) ==
  Cardinality({ k \in 1 .. (TabPos(id) - 1) :
                  tabs[k].windowId = tabs[TabPos(id)].windowId })

\* what browser.tabs.get(id) resolves to
TabObject(id) == [ tab |-> tabs[TabPos(id)], index |-> TabIndex(id) ]

---------------------------------------------------------------------------
(* Site Assignment Store.                                                  *)

\* what storageAreaGet(pageUrl) resolves to: the stored value, or null
storageAreaGet(pageUrl) ==
  LET siteStoreKey == getSiteStoreKey(pageUrl)
  IN  IF siteStoreKey \in DOMAIN storage THEN storage[siteStoreKey] ELSE NoRecord

isExempted(pageUrl, tabId) ==
  LET siteStoreKey == getSiteStoreKey(pageUrl)
  IN  IF siteStoreKey \notin DOMAIN exemptedTabs THEN FALSE
      ELSE tabId \in SeqToSet(exemptedTabs[siteStoreKey])

\* exemptedTabs after setExempted(pageUrl, tabId)
setExempted(pageUrl, tabId) ==
  LET siteStoreKey == getSiteStoreKey(pageUrl)
      old == IF siteStoreKey \in DOMAIN exemptedTabs
             THEN exemptedTabs[siteStoreKey] ELSE <<>>
  IN  (siteStoreKey :> Append(old, tabId)) @@ exemptedTabs

\* String(siteConfigs[key].userContextId) for any stored value
StoredUserContextIdString(value) ==
  IF "userContextId" \in DOMAIN value THEN String(value.userContextId)
  ELSE UndefinedString

\* Object.keys(await getByContainer(userContextId))
getByContainer(userContextId) ==
  { key \in DOMAIN storage :
      StoredUserContextIdString(storage[key]) = String(userContextId) }

---------------------------------------------------------------------------
(* Navigation Interceptor: onBeforeRequest.                                *)

Response(cancel, at) == [cancel |-> cancel, at |-> at]

getUserContextIdFromCookieStore(tab) ==
  getUserContextIdFromCookieStoreId(tab.cookieStoreId)

\* the condition under which onBeforeRequest returns {} after the lookups
AllowUnmodified(v, tab, siteSettings, url) ==
  LET userContextId == getUserContextIdFromCookieStore(tab)
  IN  \/ v = 1 /\ userContextId = Null
      \/ siteSettings = NoRecord
      \/ JsString(userContextId) = siteSettings.userContextId
      \/ tab.incognito
      \/ isExempted(url, tab.id)

\* a slip: the last created tab is not looked at
removeTabDecision_UrlOnly(tab) == tab.url \in NEW_TAB_PAGES

removeTabDecision(tab) ==
  \/ tab.url \in NEW_TAB_PAGES
  \/ (lastCreatedTab # NoTab /\ lastCreatedTab = tab.id)

\* a slip: only the request id is compared
cancelEarly_RequestIdOnly(entry, requestId, url) ==
  requestId \in entry.requestIds

cancelEarly(entry, requestId, url) ==
  requestId \in entry.requestIds \/ url \in entry.urls

\* a slip: the redirect echo is let through
cancelEarlyReturn_Empty == Response(FALSE, "echo")

\* what onBeforeRequest returns when cancelEarly is set
cancelEarlyReturn == Response(TRUE, "echo")

\* a slip: the confirm page is opened in the target container
reloadPageInContainer_ConfirmInTarget(url, currentUserContextId, userContextId, index, active, neverAsk, openerTabId) ==
  [ url |-> IF neverAsk THEN url ELSE Null,
    confirm |-> IF neverAsk THEN NoRecord
                ELSE [ url |-> url,
                       cookieStoreId |-> getCookieStoreId(String(userContextId)),
                       currentCookieStoreId |-> Null ],
    cookieStoreId |-> getCookieStoreId(String(userContextId)),
    index |-> index, active |-> active, openerTabId |-> openerTabId,
    pinned |-> FALSE, windowId |-> NoWindow, owner |-> NoPid ]

\* the argument of the browser.tabs.create call of reloadPageInContainer.
\* The confirm page url is kept as its parts: the page and its query
\* parameters (url stands for its percent-encoded form).
reloadPageInContainer(url, currentUserContextId, userContextId, index, active, neverAsk, openerTabId) ==
  LET cookieStoreId == getCookieStoreId(String(userContextId))
      currentCookieStoreId ==
        IF currentUserContextId # Null /\ currentUserContextId # <<>>
        THEN getCookieStoreId(currentUserContextId) ELSE Null
  IN  IF neverAsk
      THEN [ url |-> url, confirm |-> NoRecord, cookieStoreId |-> cookieStoreId,
             index |-> index, active |-> active, openerTabId |-> openerTabId,
             pinned |-> FALSE, windowId |-> NoWindow, owner |-> NoPid ]
      ELSE [ url |-> Null,
             confirm |-> [ url |-> url, cookieStoreId |-> cookieStoreId,
                           currentCookieStoreId |-> currentCookieStoreId ],
             cookieStoreId |-> currentCookieStoreId,
             index |-> index, active |-> active, openerTabId |-> openerTabId,
             pinned |-> FALSE, windowId |-> NoWindow, owner |-> NoPid ]

\* the invocation started by onBeforeRequest for a stale assignment:
\* variant 1 calls deleteContainer, variant 2 assignManager.deleteContainer
StaleCleanup(v, userContextId) ==
  IF v = 1
  THEN [ kind |-> "deleteContainer", pc |-> "query",
         userContextId |-> userContextId, removed |-> FALSE, tabIds |-> <<>> ]
  ELSE [ kind |-> "storageAreaDeleteContainer", pc |-> "get",
         userContextId |-> userContextId, keys |-> {} ]

MENU_ASSIGN_ID == "open-in-this-container"
MENU_REMOVE_ID == "remove-open-in-this-container"
MENU_SEPARATOR_ID == "separator"
MENU_HIDE_ID == "hide-container"
MENU_MOVE_ID == "move-to-new-window-container"

\* the items calculateContextMenu creates for a page without assignment
ContextMenuItems == { MENU_ASSIGN_ID, MENU_SEPARATOR_ID, MENU_HIDE_ID, MENU_MOVE_ID }

\* browser.contextMenus after removeContextMenu(): the five items are removed
removeContextMenu == contextMenu \ { MENU_ASSIGN_ID, MENU_REMOVE_ID, MENU_SEPARATOR_ID,
                                     MENU_HIDE_ID, MENU_MOVE_ID }

isTabPermittedAssign(tab) ==
  IF tab.url = Null THEN FALSE
  ELSE ~ (UrlProtocol(tab.url) = AboutProtocol
            \/ UrlProtocol(tab.url) = MozExtensionProtocol \/ tab.incognito)

\* Number(x) of a container id: the ids of the model are decimal numerals
\* without leading zeros, and Number("") is 0
NumberOfId(s) == IF s = << >> THEN <<"0">> ELSE s

\* browser.contextMenus after calculateContextMenu(tab): the items are
\* removed and, when the tab may be assigned, created again
calculateContextMenu(tab) ==
  LET cookieStore == getUserContextIdFromCookieStore(tab)
      permitted == cookieStore # Null /\ cookieStore # << >> /\ isTabPermittedAssign(tab)
      siteSettings == storageAreaGet(tab.url)
      checked == /\ siteSettings # NoRecord
                 /\ "userContextId" \in DOMAIN siteSettings
                 /\ NumberOfId(String(siteSettings.userContextId)) = NumberOfId(cookieStore)
  IN  IF ~ permitted THEN removeContextMenu
      ELSE removeContextMenu
             \cup { IF checked THEN MENU_REMOVE_ID ELSE MENU_ASSIGN_ID,
                    MENU_SEPARATOR_ID, MENU_HIDE_ID, MENU_MOVE_ID }

\* onBeforeRequest from the end of its lookups to its return
NavTail(i, tab, index, siteSettings, container) ==
  LET o == nav[i]
      userContextId == getUserContextIdFromCookieStore(tab)
      removeTab == removeTabDecision(tab)
      openTabId == IF removeTab THEN tab.openerTabId ELSE tab.id
      known == tab.id \in DOMAIN canceledRequests
      early == known /\ cancelEarly(canceledRequests[tab.id], o.requestId, o.url)
      entry == IF known
               THEN [ requestIds |-> canceledRequests[tab.id].requestIds \cup {o.requestId},
                      urls |-> canceledRequests[tab.id].urls \cup {o.url} ]
               ELSE [ requestIds |-> {o.requestId}, urls |-> {o.url} ]
  IN
  /\ nav' = RemoveAt(nav, i)
  /\ IF siteSettings # NoRecord /\ ~container
     THEN /\ procs' = Append(procs, StaleCleanup(variant, siteSettings.userContextId))
          /\ response' = Response(FALSE, "stale")
          /\ UNCHANGED << canceledRequests, ledgerTimers, createCalls, removeCalls,
                          contextMenu >>
     ELSE IF AllowUnmodified(variant, tab, siteSettings, o.url)
     THEN /\ response' = Response(FALSE, "allowed")
          /\ UNCHANGED << procs, canceledRequests, ledgerTimers, createCalls, removeCalls,
                          contextMenu >>
     ELSE /\ canceledRequests' = (tab.id :> entry) @@ canceledRequests
          /\ ledgerTimers' = IF known THEN ledgerTimers
                             ELSE [ledgerTimers EXCEPT ![tab.id] = @ + 1]
          /\ procs' = procs
          /\ IF early
             THEN /\ response' = cancelEarlyReturn
                  /\ UNCHANGED << createCalls, removeCalls, contextMenu >>
             ELSE IF variant = 1 /\ Falsy(siteSettings.userContextId)
             THEN \* reloadPageInContainer throws
                  /\ response' = Response(FALSE, "rejected")
                  /\ UNCHANGED << createCalls, removeCalls, contextMenu >>
             ELSE /\ createCalls' = Append(createCalls,
                        reloadPageInContainer(o.url, userContextId,
                          siteSettings.userContextId, index + 1, tab.active,
                          siteSettings.neverAsk, openTabId))
                  /\ removeCalls' = IF removeTab THEN removeCalls \cup {tab.id}
                                    ELSE removeCalls
                  /\ contextMenu' = calculateContextMenu(tab)
                  /\ response' = Response(TRUE, "rerouted")

\* bound of the navigation model: navigation events delivered
MaxNav == 2

ExampleHost == <<"e","x","a","m","p","l","e",".","c","o","m">>
AHost == <<"a",".","c","o","m">>
\* http://example.com/
UrlExample == HttpProtocol \o <<"/","/">> \o ExampleHost \o <<"/">>
\* http://example.com:80/page
UrlExample80 == HttpProtocol \o <<"/","/">> \o ExampleHost \o <<":","8","0","/","p","a","g","e">>
\* http://a.com/
UrlA == HttpProtocol \o <<"/","/">> \o AHost \o <<"/">>
NavUrls == { UrlExample, UrlExample80 }
RequestIds == { "r1", "r2" }

\* a slip: the tab id is not looked at
onBeforeRequestDrops_FrameOnly(frameId, tabId) == frameId # 0

\* onBeforeRequest returns {} at once: not the top frame, or no tab
onBeforeRequestDrops(frameId, tabId) == frameId # 0 \/ tabId = -1

\* a webRequest.onBeforeRequest event
NavEvent(tabId, url, requestId, frameId) ==
  /\ navCount < MaxNav
  /\ tabId = -1 \/ tabId \in OpenTabIds
  /\ navCount' = navCount + 1
  /\ IF onBeforeRequestDrops(frameId, tabId)
     THEN /\ response' = Response(FALSE, "dropped")
          /\ nav' = nav
          /\ contextMenu' = contextMenu
     ELSE /\ contextMenu' = removeContextMenu
          /\ nav' = Append(nav, [ pc |-> "lookup", tabId |-> tabId, url |-> url,
                                  requestId |-> requestId, tab |-> NoRecord,
                                  index |-> 0, siteSettings |-> NoRecord ])
          /\ response' = response
  /\ UNCHANGED << variant, browserVars, exemptedTabs, canceledRequests, ledgerTimers,
                  lastCreatedTab, lastCreatedTimers, unhideQueue, procs,
                  createCalls, removeCalls, fnVars, externalVars, hideVars, done >>

\* Promise.all([browser.tabs.get, storageAreaGet]) settles
NavLookup(i) ==
  /\ i \in DOMAIN nav
  /\ nav[i].pc = "lookup"
  /\ IF nav[i].tabId \notin OpenTabIds
     THEN \* browser.tabs.get rejects
          /\ nav' = RemoveAt(nav, i)
          /\ response' = Response(FALSE, "rejected")
          /\ UNCHANGED << procs, canceledRequests, ledgerTimers, createCalls, removeCalls,
                          contextMenu >>
     ELSE LET t == TabObject(nav[i].tabId)
              siteSettings == storageAreaGet(nav[i].url)
          IN  IF siteSettings # NoRecord
              THEN \* browser.contextualIdentities.get is awaited
                   /\ nav' = [nav EXCEPT ![i] = [@ EXCEPT !.pc = "container",
                                !.tab = t.tab, !.index = t.index,
                                !.siteSettings = siteSettings]]
                   /\ UNCHANGED << response, procs, canceledRequests, ledgerTimers,
                                   createCalls, removeCalls, contextMenu >>
              ELSE NavTail(i, t.tab, t.index, siteSettings, FALSE)
  /\ UNCHANGED << variant, browserVars, exemptedTabs, lastCreatedTab,
                  lastCreatedTimers, unhideQueue, navCount, fnVars, externalVars, hideVars, done >>

\* browser.contextualIdentities.get settles
NavContainer(i) ==
  /\ i \in DOMAIN nav
  /\ nav[i].pc = "container"
  /\ NavTail(i, nav[i].tab, nav[i].index, nav[i].siteSettings,
             String(nav[i].siteSettings.userContextId) \in identities)
  /\ UNCHANGED << variant, browserVars, exemptedTabs, lastCreatedTab,
                  lastCreatedTimers, unhideQueue, navCount, fnVars, externalVars, hideVars, done >>

\* webRequest.onCompleted / onErrorOccurred for a tab with a ledger entry
\* a slip: the whole ledger is emptied
onCompleted_Clear(tabId) == << >>

\* the webRequest.onCompleted / onErrorOccurred listener: canceledRequests
\* afterwards
onCompleted(tabId) ==
  [ t \in (DOMAIN canceledRequests) \ {tabId} |-> canceledRequests[t] ]

CompletedOrError(tabId) ==
  /\ tabId \in DOMAIN canceledRequests
  /\ canceledRequests' = onCompleted(tabId)
  /\ UNCHANGED << variant, browserVars, exemptedTabs, ledgerTimers, lastCreatedTab,
                  lastCreatedTimers, unhideQueue, nav, procs, createCalls,
                  removeCalls, response, navCount, fnVars, externalVars, contextMenu, hideVars, done >>

\* a slip: the callback deletes nothing
ledgerTimerCallback_Keep(tabId) == canceledRequests

\* canceledRequests after the callback of the ledger timer: the entry of
\* the tab, if there is one, is deleted
ledgerTimerCallback(tabId) ==
  [ t \in (DOMAIN canceledRequests) \ {tabId} |-> canceledRequests[t] ]

\* the 2000 ms timer registered with a new ledger entry fires
LedgerTimerFires(tabId) ==
  /\ tabId \in DOMAIN ledgerTimers
  /\ ledgerTimers[tabId] > 0
  /\ ledgerTimers' = [ledgerTimers EXCEPT ![tabId] = @ - 1]
  /\ canceledRequests' = ledgerTimerCallback(tabId)
  /\ UNCHANGED << variant, browserVars, exemptedTabs, lastCreatedTab,
                  lastCreatedTimers, unhideQueue, nav, procs, createCalls,
                  removeCalls, response, navCount, fnVars, externalVars, contextMenu, hideVars, done >>

\* the LAST_CREATED_TAB_TIMER timer of tabs.onCreated fires
LastCreatedTimerFires ==
  /\ lastCreatedTimers > 0
  /\ lastCreatedTimers' = lastCreatedTimers - 1
  /\ lastCreatedTab' = NoTab
  /\ UNCHANGED << variant, browserVars, exemptedTabs, canceledRequests, ledgerTimers,
                  unhideQueue, nav, procs, createCalls, removeCalls, response,
                  navCount, fnVars, externalVars, contextMenu, hideVars, done >>

\* the exemptContainerAssignment message: _exemptTab
\* (sent by the confirm page, once for a tab)
ExemptTab(pageUrl, tabId) ==
  /\ ~ isExempted(pageUrl, tabId)
  /\ exemptedTabs' = setExempted(pageUrl, tabId)
  /\ UNCHANGED << variant, browserVars, canceledRequests, ledgerTimers, lastCreatedTab,
                  lastCreatedTimers, unhideQueue, nav, procs, createCalls,
                  removeCalls, response, navCount, fnVars, externalVars, contextMenu, hideVars, done >>

\* the browser carries out a browser.tabs.remove(tab.id) that was not awaited
BrowserRemovesTab(tabId) ==
  /\ tabId \in removeCalls
  /\ removeCalls' = removeCalls \ {tabId}
  /\ tabs' = FilterSeq(tabs, {tabId})
  /\ UNCHANGED << variant, identities, storage, exemptedTabs, canceledRequests,
                  ledgerTimers, lastCreatedTab, lastCreatedTimers, unhideQueue, nav,
                  procs, createCalls, response, navCount, fnVars, externalVars, contextMenu, hideVars, done >>

---------------------------------------------------------------------------
(* deleteContainer and the store clean-up it starts.                       *)

DeleteContainerCall(userContextId, removed) ==
  [ kind |-> "deleteContainer", pc |-> "query", userContextId |-> userContextId,
    removed |-> removed, tabIds |-> <<>> ]

StorageDeleteCall(userContextId) ==
  [ kind |-> "storageAreaDeleteContainer", pc |-> "get",
    userContextId |-> userContextId, keys |-> {} ]

\* the contextualIdentities.onRemoved listener for the identity id: the
\* invocation it starts
onRemoved(id) ==
  LET userContextId == getUserContextIdFromCookieStoreId(ContainerPrefix \o id)
  IN  IF userContextId # Null /\ userContextId # <<>>
      THEN << DeleteContainerCall(JsString(userContextId), TRUE) >>
      ELSE << >>

RECURSIVE TabIdsOf(_, _)
\* ids of the tabs of seq in the cookie store (in any, when the
\* cookieStoreId is undefined), in order
TabIdsOf(seq, cookieStoreId) ==
  IF seq = <<>> THEN <<>>
  ELSE IF cookieStoreId = Null \/ Head(seq).cookieStoreId = cookieStoreId
       THEN <<Head(seq).id>> \o TabIdsOf(Tail(seq), cookieStoreId)
       ELSE TabIdsOf(Tail(seq), cookieStoreId)

RECURSIVE ValidPrefix(_, _)
\* browser.tabs.remove(ids) closes the tabs in order and stops at an id that
\* is no open tab: the ids it closes
ValidPrefix(ids, open) ==
  IF ids = <<>> \/ Head(ids) \notin open THEN {}
  ELSE {Head(ids)} \cup ValidPrefix(Tail(ids), open)

\* _closeTabs: browser.tabs.query({cookieStoreId}) settles, tabs.remove is called
DeleteQuery(i) ==
  /\ i \in DOMAIN procs
  /\ procs[i].kind = "deleteContainer" /\ procs[i].pc = "query"
  /\ procs' = [procs EXCEPT ![i] = [@ EXCEPT !.pc = "remove",
                 !.tabIds = TabIdsOf(tabs, getCookieStoreId(String(procs[i].userContextId)))]]
  /\ UNCHANGED << variant, browserVars, navVars, unhideQueue, createCalls, fnVars, externalVars, contextMenu, hideVars, done >>

\* browser.tabs.remove settles; deleteContainer goes on to
\* contextualIdentities.remove, or, when removed is set, to the store clean-up
DeleteRemove(i) ==
  /\ i \in DOMAIN procs
  /\ procs[i].kind = "deleteContainer" /\ procs[i].pc = "remove"
  /\ LET ids == procs[i].tabIds
         closed == ValidPrefix(ids, OpenTabIds)
         rejected == closed # SeqToSet(ids)
     IN  /\ tabs' = FilterSeq(tabs, closed)
         /\ procs' = IF rejected THEN RemoveAt(procs, i)
                     ELSE IF procs[i].removed
                     THEN Append(RemoveAt(procs, i), StorageDeleteCall(procs[i].userContextId))
                     ELSE [procs EXCEPT ![i] = [@ EXCEPT !.pc = "identityRemove"]]
         /\ done' = IF ~ rejected /\ procs[i].removed
                    THEN done \cup {String(procs[i].userContextId)} ELSE done
  /\ UNCHANGED << variant, identities, storage, navVars, unhideQueue, createCalls,
                  fnVars, externalVars, contextMenu, hideVars >>

\* browser.contextualIdentities.remove settles: it rejects for an identity
\* that does not exist; otherwise the identity is removed, which fires
\* contextualIdentities.onRemoved (deleteContainer(id, true)), and
\* deleteContainer starts the store clean-up and returns
DeleteIdentityRemove(i) ==
  /\ i \in DOMAIN procs
  /\ procs[i].kind = "deleteContainer" /\ procs[i].pc = "identityRemove"
  /\ LET id == String(procs[i].userContextId)
     IN  IF id \in identities
         THEN /\ identities' = identities \ {id}
              /\ procs' = RemoveAt(procs, i)
                            \o onRemoved(id)
                            \o << StorageDeleteCall(procs[i].userContextId) >>
              /\ done' = done \cup {id}
         ELSE /\ identities' = identities
              /\ procs' = RemoveAt(procs, i)
              /\ done' = done
  /\ UNCHANGED << variant, tabs, storage, navVars, unhideQueue, createCalls,
                  fnVars, externalVars, contextMenu, hideVars >>

\* storageAreaDeleteContainer: getByContainer's storage.local.get() settles,
\* storage.local.remove(keys) is called and not awaited
StorageDeleteGet(i) ==
  /\ i \in DOMAIN procs
  /\ procs[i].kind = "storageAreaDeleteContainer" /\ procs[i].pc = "get"
  /\ procs' = [procs EXCEPT ![i] = [@ EXCEPT !.pc = "remove",
                 !.keys = getByContainer(procs[i].userContextId)]]
  /\ UNCHANGED << variant, browserVars, navVars, unhideQueue, createCalls, fnVars, externalVars, contextMenu, hideVars, done >>

\* the browser carries out storage.local.remove(keys)
StorageDeleteRemove(i) ==
  /\ i \in DOMAIN procs
  /\ procs[i].kind = "storageAreaDeleteContainer" /\ procs[i].pc = "remove"
  /\ storage' = [ k \in (DOMAIN storage) \ procs[i].keys |-> storage[k] ]
  /\ procs' = RemoveAt(procs, i)
  /\ UNCHANGED << variant, identities, tabs, navVars, unhideQueue, createCalls, fnVars, externalVars, contextMenu, hideVars, done >>

---------------------------------------------------------------------------
(* The navigation model: four open tabs, a site assignment store that may  *)
(* hold assignments to container 3, which may or may not still exist.      *)

NavTabIds == 1 .. 4

Assignment(userContextId, neverAsk) ==
  [ userContextId |-> userContextId, neverAsk |-> neverAsk ]

\* the stores the navigation model starts from, each with the identities
NavStores ==
  { [ identities |-> { <<"0">>, <<"3">> }, storage |-> << >> ],
    [ identities |-> { <<"0">>, <<"3">> },
      storage |-> (getSiteStoreKey(UrlExample) :> Assignment(JsString(<<"3">>), FALSE)) ],
    [ identities |-> { <<"0">>, <<"3">> },
      storage |-> (getSiteStoreKey(UrlExample) :> Assignment(JsString(<<"3">>), TRUE))
                    @@ (getSiteStoreKey(UrlA) :> Assignment(JsString(<<"3">>), FALSE)) ],
    [ identities |-> { <<"0">> },
      storage |-> (getSiteStoreKey(UrlExample) :> Assignment(JsString(<<"3">>), TRUE))
                    @@ (getSiteStoreKey(UrlA) :> Assignment(JsString(<<"3">>), FALSE)) ] }

\* the cookie store ids the browser gives the tabs of containers 0 and 3
Container0 == ContainerPrefix \o <<"0">>
Container3 == ContainerPrefix \o <<"3">>

NavTabs(ids) ==
  << Tab(1, 1, Container0, DEFAULT_TAB, FALSE, TRUE, FALSE, NoTab),
     Tab(2, 1, FirefoxDefault, UrlA, FALSE, FALSE, FALSE, 1),
     Tab(3, 1, IF <<"3">> \in ids THEN Container3 ELSE Container0,
         UrlExample, FALSE, FALSE, FALSE, NoTab),
     Tab(4, 2, FirefoxPrivate, UrlA, FALSE, TRUE, TRUE, NoTab) >>

InitNav ==
  /\ variant \in {1, 2}
  /\ \E st \in NavStores :
       /\ identities = st.identities
       /\ storage = st.storage
       /\ tabs = NavTabs(st.identities)
  /\ exemptedTabs = << >>
  /\ canceledRequests = << >>
  /\ ledgerTimers = [ t \in NavTabIds |-> 0 ]
  \* tab 2 has just been created: tabs.onCreated has stored it and set its timer
  /\ lastCreatedTab = 2
  /\ lastCreatedTimers = 1
  /\ unhideQueue = << >>
  /\ nav = << >>
  /\ procs = << >>
  /\ createCalls = << >>
  /\ removeCalls = {}
  /\ response = Response(FALSE, "none")
  /\ navCount = 0
  /\ moveCalls = {}
  /\ nextTabId = 5
  /\ nextWindowId = 3
  /\ nextPid = 1
  /\ opCount = 0
  /\ done = {}
  /\ contextMenu = ContextMenuItems
  /\ externalExtensionAllowed = {}
  /\ management = << >>
  /\ fnIn = << >>
  /\ fnOut = << >>

NextNav ==
  \/ \E tabId \in {1, 2}, url \in NavUrls, requestId \in RequestIds :
       NavEvent(tabId, url, requestId, 0)
  \/ \E tabId \in {3, 4} : NavEvent(tabId, UrlExample, "r1", 0)
  \/ NavEvent(1, UrlExample, "r1", 1)
  \/ NavEvent(-1, UrlExample, "r1", 0)
  \/ \E i \in 1 .. MaxNav : NavLookup(i)
  \/ \E i \in 1 .. MaxNav : NavContainer(i)
  \/ \E tabId \in NavTabIds : CompletedOrError(tabId)
  \/ \E tabId \in NavTabIds : LedgerTimerFires(tabId)
  \/ LastCreatedTimerFires
  \/ ExemptTab(UrlExample, 1)
  \/ \E tabId \in NavTabIds : BrowserRemovesTab(tabId)
  \/ \E i \in DOMAIN procs : DeleteQuery(i)
  \/ \E i \in DOMAIN procs : DeleteRemove(i)
  \/ \E i \in DOMAIN procs : DeleteIdentityRemove(i)
  \/ \E i \in DOMAIN procs : StorageDeleteGet(i)
  \/ \E i \in DOMAIN procs : StorageDeleteRemove(i)

SpecNav == InitNav /\ [][NextNav]_vars

---------------------------------------------------------------------------
(* Properties of the Navigation Interceptor, checked under SpecNav.        *)

\* the step in which invocation i of onBeforeRequest, its tab found, passes
\* its lookups and runs to its return
NavDecides(i) ==
  \/ NavContainer(i)
  \/ /\ NavLookup(i)
     /\ nav[i].tabId \in OpenTabIds
     /\ storageAreaGet(nav[i].url) = NoRecord

\* the tab and the assignment invocation i decides on
DecidedTab(i) ==
  IF nav[i].pc = "container" THEN nav[i].tab ELSE TabObject(nav[i].tabId).tab
DecidedSettings(i) ==
  IF nav[i].pc = "container" THEN nav[i].siteSettings ELSE NoRecord

\* an assignment was found and its target container exists
ContainerExists(i) ==
  /\ nav[i].pc = "container"
  /\ String(nav[i].siteSettings.userContextId) \in identities

\* the four conditions under which a navigation is to be allowed unmodified
AllowedBySpec(i) ==
  \/ DecidedSettings(i) = NoRecord
  \/ getUserContextIdFromCookieStore(DecidedTab(i))
       = String(DecidedSettings(i).userContextId)
  \/ DecidedTab(i).incognito
  \/ isExempted(nav[i].url, DecidedTab(i).id)

\* the request id or the url of invocation i is recorded for its tab
AlreadyRecorded(i) ==
  /\ nav[i].tabId \in DOMAIN canceledRequests
  /\ \/ nav[i].requestId \in canceledRequests[nav[i].tabId].requestIds
     \/ nav[i].url \in canceledRequests[nav[i].tabId].urls

\* C1: a reroute-candidate navigation on a tab, handled while the tab's ledger
\* entry exists and already records its requestId or its url, is canceled and
\* neither opens a tab nor closes the original one, however the handlers
\* interleave at their lookups.
C1_EchoCanceledWithoutReroute ==
  [][\A i \in 1 .. MaxNav :
       (NavDecides(i) /\ ContainerExists(i) /\ ~ AllowedBySpec(i) /\ AlreadyRecorded(i))
         => /\ response'.cancel
            /\ createCalls' = createCalls
            /\ removeCalls' = removeCalls
            /\ tabs' = tabs]_vars

\* C1 witness: two navigations were delivered, the second one was canceled as
\* an echo, and one reroute was issued
C1_Witness ==
  /\ navCount = 2
  /\ response = Response(TRUE, "echo")
  /\ Len(createCalls) = 1

\* C2 (as stated): a navigation whose assignment's container exists, or that
\* has no assignment, is allowed if and only if there is no assignment, the
\* tab's container is the assigned one, the tab is private or the tab is
\* exempted; in every other case, a tab of the default context included, it
\* is canceled.
C2_AllowedIffFourConditions ==
  [][\A i \in 1 .. MaxNav :
       (NavDecides(i) /\ (DecidedSettings(i) = NoRecord \/ ContainerExists(i)))
         => (response'.cancel <=> ~ AllowedBySpec(i))]_vars

\* the branch of onBeforeRequest past its early returns
CandidateBranch(i) ==
  /\ ContainerExists(i)
  /\ ~ AllowUnmodified(variant, DecidedTab(i), DecidedSettings(i), nav[i].url)

\* C3: every navigation that reaches the reroute-candidate branch returns
\* cancel = true: a first cancellation, a redirect echo, or a new request on
\* a tab that has a ledger entry.
C3_CandidateAlwaysCanceled ==
  [][\A i \in 1 .. MaxNav :
       (NavDecides(i) /\ CandidateBranch(i)) => response'.cancel]_vars

\* C3 witness: an echo was canceled after a reroute whose tab removal and
\* ledger entry are still pending
C3_Witness ==
  /\ response.cancel
  /\ response.at = "echo"
  /\ canceledRequests # << >>
  /\ createCalls # << >>

\* C4 (as stated): once a navigation has met an assignment whose container
\* is missing and the clean-up it started has run to its end, no stored
\* assignment references a missing container.
C4_StaleAssignmentsRemoved ==
  (response = Response(FALSE, "stale") /\ procs = << >>)
    => \A k \in DOMAIN storage :
         StoredUserContextIdString(storage[k]) \in identities

\* the cookie store a tabs.create call of reloadPageInContainer leads to
RerouteTarget(call) ==
  IF call.confirm = NoRecord THEN call.cookieStoreId
  ELSE call.confirm.cookieStoreId

\* C5: with example.com assigned to the existing container 3, a navigation
\* of a non-private, non-exempt tab of container 0 to
\* http://example.com:80/page that is no redirect echo is canceled and
\* issues exactly one reroute, to firefox-container-3.
C5_DefaultPortReroute ==
  [][\A i \in 1 .. MaxNav :
       ( /\ NavDecides(i)
         /\ nav[i].url = UrlExample80
         /\ (SiteStoragePrefix \o ExampleHost) \in DOMAIN storage
         /\ <<"3">> \in identities
         /\ DecidedTab(i).cookieStoreId = Container0
         /\ ~ DecidedTab(i).incognito
         /\ ~ isExempted(nav[i].url, DecidedTab(i).id)
         /\ ~ AlreadyRecorded(i) )
         => /\ response'.cancel
            /\ Len(createCalls') = Len(createCalls) + 1
            /\ SubSeq(createCalls', 1, Len(createCalls)) = createCalls
            /\ RerouteTarget(createCalls'[Len(createCalls')]) = Container3]_vars

\* C5 witness: the navigation to http://example.com:80/page was canceled and
\* rerouted
C5_Witness ==
  /\ response = Response(TRUE, "rerouted")
  /\ createCalls # << >>
  /\ LET call == createCalls[Len(createCalls)]
     IN  /\ RerouteTarget(call) = Container3
         /\ UrlExample80 \in { call.url, IF call.confirm = NoRecord THEN Null
                                         ELSE call.confirm.url }

---------------------------------------------------------------------------
(* The site key model: getSiteStoreKey applied to urls written from a      *)
(* scheme, a host, an optional port and a path.                            *)

KeySchemes == { HttpProtocol, HttpsProtocol }
KeyHosts == { ExampleHost, AHost,
              <<"l","o","c","a","l","h","o","s","t">>,
              <<"1","0",".","0",".","0",".","1">> }
\* the empty sequence stands for a url written without a port
KeyPorts == { <<>>, <<"8","0">>, <<"4","4","3">>, <<"8","0","8","0">>, <<"8">> }
KeyPaths == { <<"/">>, <<"/","p","a","g","e">> }

\* the url as written
WriteUrl(scheme, host, port, path) ==
  scheme \o <<"/","/">> \o host
    \o (IF port = <<>> THEN <<>> ELSE <<":">> \o port) \o path

InitKey ==
  /\ variant \in {1, 2}
  /\ fnIn \in [ scheme : KeySchemes, host : KeyHosts, port : KeyPorts, path : KeyPaths ]
  /\ fnOut = NoRecord
  /\ identities = {}
  /\ tabs = << >>
  /\ storage = << >>
  /\ exemptedTabs = << >>
  /\ canceledRequests = << >>
  /\ ledgerTimers = << >>
  /\ lastCreatedTab = NoTab
  /\ lastCreatedTimers = 0
  /\ unhideQueue = << >>
  /\ nav = << >>
  /\ procs = << >>
  /\ createCalls = << >>
  /\ removeCalls = {}
  /\ response = Response(FALSE, "none")
  /\ navCount = 0
  /\ moveCalls = {}
  /\ nextTabId = 5
  /\ nextWindowId = 3
  /\ nextPid = 1
  /\ opCount = 0
  /\ done = {}
  /\ contextMenu = ContextMenuItems
  /\ externalExtensionAllowed = {}
  /\ management = << >>

\* getSiteStoreKey is called with the url as written, and with the same url
\* with the default port of its scheme written out
ApplyGetSiteStoreKey ==
  /\ fnOut = NoRecord
  /\ fnOut' = [ key |-> getSiteStoreKey(
                          WriteUrl(fnIn.scheme, fnIn.host, fnIn.port, fnIn.path)),
                keyDefaultPort |-> getSiteStoreKey(
                          WriteUrl(fnIn.scheme, fnIn.host, DefaultPort(fnIn.scheme),
                                   fnIn.path)) ]
  /\ UNCHANGED << variant, browserVars, navVars, unhideQueue, procs, createCalls,
                  hideVars, done, fnIn,
                  externalVars, contextMenu >>

NextKey == ApplyGetSiteStoreKey

SpecKey == InitKey /\ [][NextKey]_vars

\* C6: the site key is the prefix and the hostname alone when the port is 80
\* or 443 (or none is written), and the prefix, the hostname and the port
\* otherwise; a url written without a port and the same url with its default
\* port written out have the same key, for every host.
C6_SiteKeyByPort ==
  fnOut # NoRecord =>
    /\ fnOut.key = SiteStoragePrefix \o fnIn.host
                     \o (IF fnIn.port \in { <<"8","0">>, <<"4","4","3">> }
                         THEN <<>> ELSE fnIn.port)
    /\ fnIn.port = <<>> => fnOut.key = fnOut.keyDefaultPort

\* C6 witness: the keys of http://example.com/... and of
\* http://example.com:80/... have been computed and are the same
C6_Witness ==
  /\ fnOut # NoRecord
  /\ fnIn.scheme = HttpProtocol /\ fnIn.port = <<>> /\ fnIn.host = ExampleHost
  /\ fnOut.keyDefaultPort = SiteStoragePrefix \o ExampleHost
  /\ fnOut.key = fnOut.keyDefaultPort

---------------------------------------------------------------------------
(* The container deletion model: containers 3 and 5, site assignments to   *)
(* them stored with a string or a number as container id, and their        *)
(* container tab-states.                                                   *)

\* bound of the container deletion model: deleteContainer messages and
\* container-removed events delivered
MaxDeletes == 2

BHost == <<"b",".","c","o","m">>
\* http://b.com/
UrlB == HttpProtocol \o <<"/","/">> \o BHost \o <<"/">>
Container5 == ContainerPrefix \o <<"5">>

ContainerState(hiddenTabs) == [ hiddenTabs |-> hiddenTabs ]

DeleteTabs ==
  { << >>,
    << Tab(1, 1, Container5, UrlA, FALSE, TRUE, FALSE, NoTab),
       Tab(2, 1, Container3, UrlB, FALSE, FALSE, FALSE, NoTab) >>,
    << Tab(1, 1, Container5, UrlA, FALSE, TRUE, FALSE, NoTab),
       Tab(2, 1, FirefoxDefault, UrlExample, FALSE, FALSE, FALSE, NoTab),
       Tab(3, 2, Container5, UrlB, FALSE, TRUE, FALSE, NoTab) >> }

DeleteStorage ==
  (getSiteStoreKey(UrlA) :> Assignment(JsString(<<"5">>), FALSE))
    @@ (getSiteStoreKey(UrlB) :> Assignment(JsNumber(<<"5">>), TRUE))
    @@ (getSiteStoreKey(UrlExample) :> Assignment(JsString(<<"3">>), FALSE))
    @@ (getContainerStoreKey(Container5) :> ContainerState(<< >>))
    @@ (getContainerStoreKey(Container3) :> ContainerState(<< >>))

InitDelete ==
  /\ variant \in {1, 2}
  /\ identities = { <<"3">>, <<"5">> }
  /\ tabs \in DeleteTabs
  /\ storage = DeleteStorage
  /\ exemptedTabs = << >>
  /\ canceledRequests = << >>
  /\ ledgerTimers = << >>
  /\ lastCreatedTab = NoTab
  /\ lastCreatedTimers = 0
  /\ unhideQueue = << >>
  /\ nav = << >>
  /\ procs = << >>
  /\ createCalls = << >>
  /\ removeCalls = {}
  /\ response = Response(FALSE, "none")
  /\ navCount = 0
  /\ moveCalls = {}
  /\ nextTabId = 5
  /\ nextWindowId = 3
  /\ nextPid = 1
  /\ opCount = 0
  /\ done = {}
  /\ contextMenu = ContextMenuItems
  /\ externalExtensionAllowed = {}
  /\ management = << >>
  /\ fnIn = << >>
  /\ fnOut = << >>

\* the deleteContainer message: deleteContainer(m.message.userContextId)
DeleteContainerMessage(userContextId) ==
  /\ opCount < MaxDeletes
  /\ opCount' = opCount + 1
  /\ procs' = Append(procs, DeleteContainerCall(userContextId, FALSE))
  /\ UNCHANGED << variant, browserVars, navVars, unhideQueue, createCalls, fnVars, externalVars, contextMenu,
                  moveCalls, nextTabId, nextWindowId, nextPid, done >>

\* the user removes the identity id in the browser: contextualIdentities.onRemoved
ContainerRemovedEvent(id) ==
  /\ opCount < MaxDeletes
  /\ id \in identities
  /\ opCount' = opCount + 1
  /\ identities' = identities \ {id}
  /\ procs' = procs \o onRemoved(id)
  /\ UNCHANGED << variant, tabs, storage, navVars, unhideQueue, createCalls, fnVars, externalVars, contextMenu,
                  moveCalls, nextTabId, nextWindowId, nextPid, done >>

\* the values a deleteContainer message carries as userContextId: the id of
\* either container as a string, and the id 5 as a number
DeleteUserContextIds ==
  { JsString(<<"3">>), JsString(<<"5">>), JsNumber(<<"5">>) }

NextDelete ==
  \/ \E userContextId \in DeleteUserContextIds : DeleteContainerMessage(userContextId)
  \/ \E id \in { <<"3">>, <<"5">> } : ContainerRemovedEvent(id)
  \/ \E i \in DOMAIN procs : DeleteQuery(i)
  \/ \E i \in DOMAIN procs : DeleteRemove(i)
  \/ \E i \in DOMAIN procs : DeleteIdentityRemove(i)
  \/ \E i \in DOMAIN procs : StorageDeleteGet(i)
  \/ \E i \in DOMAIN procs : StorageDeleteRemove(i)

SpecDelete == InitDelete /\ [][NextDelete]_vars

\* C7 (as stated): once deleteContainer(id) has resolved and the work it
\* started has ended, the store holds no site assignment whose container id
\* is id as a string, stored as a string or as a number, and no
\* identitiesState@@_firefox-container-<id> key, and the assignments of the
\* other containers are as they were.
C7_DeleteRemovesContainerKeys ==
  \A id \in done :
    procs = << >> =>
      /\ \A k \in DOMAIN storage : StoredUserContextIdString(storage[k]) # id
      /\ (IdentityStoragePrefix \o ContainerPrefix \o id) \notin DOMAIN storage
      /\ \A k \in DOMAIN DeleteStorage :
           (StoredUserContextIdString(DeleteStorage[k]) \notin done \cup {UndefinedString})
             => (k \in DOMAIN storage /\ storage[k] = DeleteStorage[k])

\* the part of C7 the code keeps: the assignments are removed
C7_AssignmentsRemoved ==
  \A id \in done :
    procs = << >> =>
      \A k \in DOMAIN storage : StoredUserContextIdString(storage[k]) # id

---------------------------------------------------------------------------
(* Container Tab-State Store and tab creation.                             *)

\* the first position of c in queue
RECURSIVE IndexOf(_, _, _)
IndexOf(queue, c, from) ==
  IF from > Len(queue) THEN 0
  ELSE IF queue[from] = c THEN from
  ELSE IndexOf(queue, c, from + 1)

\* unhideQueue.splice(unhideQueue.indexOf(c), 1): indexOf is -1 for an
\* absent c, and splice(-1, 1) removes the last element
SpliceOut(queue, c) ==
  IF IndexOf(queue, c, 1) # 0 THEN RemoveAt(queue, IndexOf(queue, c, 1))
  ELSE IF queue = << >> THEN queue
  ELSE SubSeq(queue, 1, Len(queue) - 1)

\* _createIdentityState()
CreateIdentityState == ContainerState(<< >>)

\* a slip: the default state is not written
identityStateSet_Nothing(cookieStoreId, data) == storage

\* the store after identityStateSet(cookieStoreId, data) is carried out
identityStateSet(cookieStoreId, data) ==
  (getContainerStoreKey(cookieStoreId) :> data) @@ storage

\* the hiddenTabs of a container as persisted, empty when nothing is stored
PersistedHiddenTabs(cookieStoreId) ==
  IF getContainerStoreKey(cookieStoreId) \in DOMAIN storage
  THEN storage[getContainerStoreKey(cookieStoreId)].hiddenTabs
  ELSE << >>

\* the snapshot storeHidden keeps of a tab: the tab object with active
\* cleared and hiddenState set
Snapshot(tab) ==
  [ id |-> tab.id, windowId |-> tab.windowId, cookieStoreId |-> tab.cookieStoreId,
    url |-> tab.url, pinned |-> tab.pinned, active |-> FALSE,
    incognito |-> tab.incognito, openerTabId |-> tab.openerTabId,
    hiddenState |-> TRUE ]

RECURSIVE TabsOfIn(_, _, _)
\* browser.tabs.query({cookieStoreId, windowId}) on the tabs seq, in order;
\* a property that is undefined is not part of the query
TabsOfIn(seq, cookieStoreId, windowId) ==
  IF seq = << >> THEN << >>
  ELSE IF /\ cookieStoreId = Null \/ Head(seq).cookieStoreId = cookieStoreId
          /\ windowId = NoWindow \/ Head(seq).windowId = windowId
       THEN << Head(seq) >> \o TabsOfIn(Tail(seq), cookieStoreId, windowId)
       ELSE TabsOfIn(Tail(seq), cookieStoreId, windowId)

RECURSIVE storeHiddenPush(_)
\* the forEach of storeHidden: the snapshots pushed for the tabs queried
storeHiddenPush(tabsByContainer) ==
  IF tabsByContainer = << >> THEN << >>
  ELSE (IF isPermissibleURL(Head(tabsByContainer).url)
        THEN << Snapshot(Head(tabsByContainer)) >> ELSE << >>)
       \o storeHiddenPush(Tail(tabsByContainer))

\* the cookie store openNewTab opens its tab in: without a userContextId
\* variant 1 takes '0', and variant 2 builds the id from the value it got
\* from getUserContextIdFromCookieStoreId, false
openNewTabCookieStoreId(v, userContextId) ==
  IF userContextId = Null \/ userContextId = << >>
  THEN IF v = 1 THEN getCookieStoreId(<<"0">>)
       ELSE getCookieStoreId(FalseString)
  ELSE getCookieStoreId(userContextId)

\* a slip: the pinned option is left out
openNewTab_Unpinned(v, userContextId, object, owner) ==
  LET url == IF object.url \in NEW_TAB_PAGES THEN Null ELSE object.url
  IN  IF ~ isPermissibleURL(url) THEN << >>
      ELSE << [ url |-> url, confirm |-> NoRecord,
                cookieStoreId |-> openNewTabCookieStoreId(v, userContextId),
                index |-> NoIndex, active |-> FALSE, openerTabId |-> NoTab,
                pinned |-> FALSE, windowId |-> NoWindow, owner |-> owner ] >>

\* a slip: the url is not looked at
openNewTab_Unchecked(v, userContextId, object, owner) ==
  << [ url |-> IF object.url \in NEW_TAB_PAGES THEN Null ELSE object.url,
       confirm |-> NoRecord,
       cookieStoreId |-> openNewTabCookieStoreId(v, userContextId),
       index |-> NoIndex, active |-> FALSE, openerTabId |-> NoTab,
       pinned |-> object.pinned, windowId |-> NoWindow, owner |-> owner ] >>

\* the browser.tabs.create calls of openNewTab, none or one, for a hidden
\* tab object; showTabs passes nofocus: false, so active is false
openNewTab(v, userContextId, object, owner) ==
  LET url == IF object.url \in NEW_TAB_PAGES THEN Null ELSE object.url
  IN  IF ~ isPermissibleURL(url) THEN << >>
      ELSE << [ url |-> url, confirm |-> NoRecord,
                cookieStoreId |-> openNewTabCookieStoreId(v, userContextId),
                index |-> NoIndex, active |-> FALSE, openerTabId |-> NoTab,
                pinned |-> object.pinned, windowId |-> NoWindow, owner |-> owner ] >>

RECURSIVE showTabsCalls(_, _, _, _)
\* the calls of the loop of showTabs over containerState.hiddenTabs
showTabsCalls(v, userContextId, hiddenTabs, owner) ==
  IF hiddenTabs = << >> THEN << >>
  ELSE openNewTab(v, userContextId, Head(hiddenTabs), owner)
       \o showTabsCalls(v, userContextId, Tail(hiddenTabs), owner)

\* the window a tab is created in when the call names none
CurrentWindow == 1

\* moz-extension://x/confirm-page.html
ConfirmPageUrl ==
  MozExtensionProtocol \o <<"/","/","x","/","c","o","n","f","i","r","m","-","p","a","g","e",".","h","t","m","l">>

\* the tab the browser creates for a tabs.create call
CreatedTab(call, id) ==
  Tab(id,
      IF call.windowId = NoWindow THEN CurrentWindow ELSE call.windowId,
      IF call.cookieStoreId = Null THEN FirefoxDefault ELSE call.cookieStoreId,
      IF call.confirm # NoRecord THEN ConfirmPageUrl
      ELSE IF call.url = Null THEN DEFAULT_TAB ELSE call.url,
      call.pinned, call.active, FALSE, call.openerTabId)

\* positions of the tabs of a window in tabs
WindowPositions(windowId) == { k \in DOMAIN tabs : tabs[k].windowId = windowId }

\* where in tabs the browser puts a new tab: a pinned tab after the pinned
\* tabs of its window, a tab with an index at that index of its window but
\* after the pinned tabs, any other tab at the end
InsertPosition(tab, index) ==
  LET ps == WindowPositions(tab.windowId)
      pinnedPs == { k \in ps : tabs[k].pinned }
      afterPinned == IF pinnedPs = {} THEN
                       (IF ps = {} THEN Len(tabs) + 1
                        ELSE CHOOSE k \in ps : \A j \in ps : k <= j)
                     ELSE (CHOOSE k \in pinnedPs : \A j \in pinnedPs : k >= j) + 1
      atIndex == { k \in ps : Cardinality({ j \in ps : j < k }) = index }
  IN  IF tab.pinned THEN afterPinned
      ELSE IF index # NoIndex /\ atIndex # {}
      THEN LET k == CHOOSE k \in atIndex : TRUE
           IN  IF k < afterPinned THEN afterPinned ELSE k
      ELSE Len(tabs) + 1

\* tabs with the new tab put in; an active new tab takes the place of the
\* active tab of its window
InsertTab(tab, index) ==
  LET at == InsertPosition(tab, index)
      others == [ k \in DOMAIN tabs |->
                    IF tab.active /\ tabs[k].windowId = tab.windowId
                    THEN [tabs[k] EXCEPT !.active = FALSE] ELSE tabs[k] ]
  IN  SubSeq(others, 1, at - 1) \o << tab >> \o SubSeq(others, at, Len(others))

\* the invocation of unhideContainer(cookieStoreId), suspended in showTabs
\* at the storage.local.get of identityStateGet
UnhideCall(cookieStoreId, pid) ==
  [ kind |-> "unhideContainer", pc |-> "stateGet", cookieStoreId |-> cookieStoreId,
    containerState |-> NoRecord, pid |-> pid ]

\* unhideContainer up to its first await: what it adds to procs
unhideContainerStart(cookieStoreId, pid) ==
  IF IndexOf(unhideQueue, cookieStoreId, 1) = 0
  THEN << UnhideCall(cookieStoreId, pid) >> ELSE << >>

\* the tabs.onCreated listener for the created tab, up to its awaits;
\* before contains what the step did to procs besides
onCreated(tab, before) ==
  /\ lastCreatedTab' = tab.id
  /\ lastCreatedTimers' = lastCreatedTimers + 1
  /\ procs' = before \o unhideContainerStart(tab.cookieStoreId, nextPid)
  /\ unhideQueue' = IF IndexOf(unhideQueue, tab.cookieStoreId, 1) = 0
                    THEN Append(unhideQueue, tab.cookieStoreId) ELSE unhideQueue
  /\ nextPid' = nextPid + 1

\* the browser carries out the oldest tabs.create call: the tab exists, the
\* call's promise resolves and tabs.onCreated fires
BrowserCreatesTab ==
  /\ createCalls # << >>
  /\ LET call == Head(createCalls)
         tab == CreatedTab(call, nextTabId)
     IN  /\ tabs' = InsertTab(tab, call.index)
         /\ onCreated(tab, procs)
  /\ createCalls' = Tail(createCalls)
  /\ nextTabId' = nextTabId + 1
  /\ UNCHANGED << variant, identities, storage, exemptedTabs, canceledRequests,
                  ledgerTimers, nav, removeCalls, response, navCount, moveCalls,
                  nextWindowId, opCount, done, fnVars, externalVars, contextMenu >>

\* the variables of the navigation interceptor the tab orchestrator leaves alone
interceptorVars == << exemptedTabs, canceledRequests, ledgerTimers, nav, response,
                      navCount >>

---------------------------------------------------------------------------
(* identityStateGet, as awaited by storeHidden, showTabs and               *)
(* moveTabsToWindow.                                                       *)

\* the invocation i goes on with the container state it awaited
\* a slip: the call goes on in every case
moveNothingToDo_Never(list, containerState) == FALSE

\* moveTabsToWindow returns at "Nothing to do"
moveNothingToDo(list, containerState) ==
  list = << >> /\ containerState.hiddenTabs = << >>

AfterState(i, containerState) ==
  LET o == procs[i]
  IN  IF o.kind = "getTabs"
      THEN \* getTabs returns list.concat(containerState.hiddenTabs)
           /\ procs' = RemoveAt(procs, i)
           /\ createCalls' = createCalls
      ELSE IF o.kind = "hideTabs"
      THEN \* storeHidden awaits browser.tabs.query
           /\ procs' = [procs EXCEPT ![i] = [@ EXCEPT !.pc = "storeQuery",
                                               !.containerState = containerState]]
           /\ createCalls' = createCalls
      ELSE IF o.kind = "unhideContainer"
      THEN \* showTabs calls openNewTab for the hidden tabs, awaits Promise.all
           LET calls == showTabsCalls(variant,
                          getUserContextIdFromCookieStoreId(o.cookieStoreId),
                          containerState.hiddenTabs, o.pid)
           IN  /\ createCalls' = createCalls \o calls
               /\ procs' = [procs EXCEPT ![i] = [@ EXCEPT
                              !.pc = IF calls = << >> THEN "set" ELSE "awaitCreates",
                              !.containerState = containerState]]
      ELSE \* moveTabsToWindow: nothing to do, or browser.windows.create
           /\ createCalls' = createCalls
           /\ procs' = IF moveNothingToDo(o.list, containerState)
                       THEN RemoveAt(procs, i)
                       ELSE [procs EXCEPT ![i] = [@ EXCEPT !.pc = "window",
                                                   !.containerState = containerState]]

\* the storage.local.get([storeKey]) of identityStateGet settles
IdentityStateGet(i) ==
  /\ i \in DOMAIN procs
  /\ procs[i].pc = "stateGet"
  /\ IF getContainerStoreKey(procs[i].cookieStoreId) \in DOMAIN storage
     THEN AfterState(i, storage[getContainerStoreKey(procs[i].cookieStoreId)])
     ELSE /\ procs' = [procs EXCEPT ![i] = [@ EXCEPT !.pc = "stateDefault"]]
          /\ createCalls' = createCalls
  /\ UNCHANGED << variant, browserVars, interceptorVars, lastCreatedTab,
                  lastCreatedTimers, unhideQueue, removeCalls, hideVars, done, fnVars, externalVars, contextMenu >>

\* the identityStateSet of the default container state is carried out
IdentityStateDefault(i) ==
  /\ i \in DOMAIN procs
  /\ procs[i].pc = "stateDefault"
  /\ storage' = identityStateSet(procs[i].cookieStoreId, CreateIdentityState)
  /\ AfterState(i, CreateIdentityState)
  /\ UNCHANGED << variant, identities, tabs, interceptorVars, lastCreatedTab,
                  lastCreatedTimers, unhideQueue, removeCalls, hideVars, done, fnVars, externalVars, contextMenu >>

---------------------------------------------------------------------------
(* hideTabs.                                                               *)

\* bound of the tab orchestrator model: messages and user actions delivered
MaxOps == 2

\* checkArgs(['cookieStoreId', 'windowId'], options, methodName) throws:
\* variant 1 when an argument is missing or falsy; variant 2 returns its
\* Error inside the forEach callback and never throws
checkArgsThrows(v, cookieStoreId, windowId) ==
  /\ v = 1
  /\ cookieStoreId \in { Null, << >> } \/ windowId = NoWindow

\* tabsByContainer keeps the ids of the tabs storeHidden's query resolved to
HideCall(cookieStoreId, windowId) ==
  [ kind |-> "hideTabs", pc |-> "stateGet", cookieStoreId |-> cookieStoreId,
    windowId |-> windowId, containerState |-> NoRecord, tabIds |-> << >>,
    tabsByContainer |-> {} ]

\* the hideTabs message; checkArgs may throw, and variant 1 throws without
\* a userContextId
HideTabsMessage(cookieStoreId, windowId) ==
  /\ opCount < MaxOps
  /\ opCount' = opCount + 1
  /\ procs' = IF \/ checkArgsThrows(variant, cookieStoreId, windowId)
                 \/ variant = 1 /\ getUserContextIdFromCookieStoreId(cookieStoreId) = Null
              THEN procs
              ELSE Append(procs, HideCall(cookieStoreId, windowId))
  /\ UNCHANGED << variant, browserVars, navVars, unhideQueue, createCalls, moveCalls,
                  nextTabId, nextWindowId, nextPid, done, fnVars, externalVars, contextMenu >>

\* storeHidden: browser.tabs.query settles, the snapshots are pushed and
\* identityStateSet is called
HideStoreQuery(i) ==
  /\ i \in DOMAIN procs
  /\ procs[i].kind = "hideTabs" /\ procs[i].pc = "storeQuery"
  /\ LET tabsByContainer == TabsOfIn(tabs, procs[i].cookieStoreId, procs[i].windowId)
     IN  procs' = [procs EXCEPT ![i] = [@ EXCEPT !.pc = "storeSet",
                     !.containerState = ContainerState(
                        @.hiddenTabs \o storeHiddenPush(tabsByContainer)),
                     !.tabsByContainer = { tabsByContainer[k].id :
                                             k \in DOMAIN tabsByContainer }]]
  /\ UNCHANGED << variant, browserVars, navVars, unhideQueue, createCalls, hideVars,
                  done, fnVars, externalVars, contextMenu >>

\* the identityStateSet of storeHidden is carried out; hideTabs calls
\* _closeTabs, which awaits browser.tabs.query
HideStoreSet(i) ==
  /\ i \in DOMAIN procs
  /\ procs[i].kind = "hideTabs" /\ procs[i].pc = "storeSet"
  /\ storage' = identityStateSet(procs[i].cookieStoreId, procs[i].containerState)
  /\ procs' = [procs EXCEPT ![i] = [@ EXCEPT !.pc = "closeQuery"]]
  /\ UNCHANGED << variant, identities, tabs, navVars, unhideQueue, createCalls,
                  hideVars, done, fnVars, externalVars, contextMenu >>

\* _closeTabs(userContextId, windowId): the query settles, tabs.remove is called
HideCloseQuery(i) ==
  /\ i \in DOMAIN procs
  /\ procs[i].kind = "hideTabs" /\ procs[i].pc = "closeQuery"
  /\ LET userContextId == getUserContextIdFromCookieStoreId(procs[i].cookieStoreId)
         cookieStoreId == openNewTabCookieStoreId(2, userContextId)
     IN  procs' = [procs EXCEPT ![i] = [@ EXCEPT !.pc = "closeRemove",
                     !.tabIds = TabIdsOf(TabsOfIn(tabs, cookieStoreId, procs[i].windowId),
                                         cookieStoreId)]]
  /\ UNCHANGED << variant, browserVars, navVars, unhideQueue, createCalls, hideVars,
                  done, fnVars, externalVars, contextMenu >>

\* the browser.tabs.remove of _closeTabs settles and hideTabs returns
HideCloseRemove(i) ==
  /\ i \in DOMAIN procs
  /\ procs[i].kind = "hideTabs" /\ procs[i].pc = "closeRemove"
  /\ tabs' = FilterSeq(tabs, ValidPrefix(procs[i].tabIds, OpenTabIds))
  /\ procs' = RemoveAt(procs, i)
  /\ UNCHANGED << variant, identities, storage, navVars, unhideQueue, createCalls,
                  hideVars, done, fnVars, externalVars, contextMenu >>

---------------------------------------------------------------------------
(* unhideContainer and showTabs.                                           *)

\* the showTabs message: unhideContainer(m.cookieStoreId)
ShowTabsMessage(cookieStoreId) ==
  /\ opCount < MaxOps
  /\ opCount' = opCount + 1
  /\ procs' = procs \o unhideContainerStart(cookieStoreId, nextPid)
  /\ unhideQueue' = IF IndexOf(unhideQueue, cookieStoreId, 1) = 0
                    THEN Append(unhideQueue, cookieStoreId) ELSE unhideQueue
  /\ nextPid' = nextPid + 1
  /\ UNCHANGED << variant, browserVars, navVars, createCalls, moveCalls, nextTabId,
                  nextWindowId, done, fnVars, externalVars, contextMenu >>

\* Promise.all(promises) of showTabs settles: every tab it asked for exists;
\* identityStateSet is called
ShowCreatesDone(i) ==
  /\ i \in DOMAIN procs
  /\ procs[i].kind = "unhideContainer" /\ procs[i].pc = "awaitCreates"
  /\ \A k \in DOMAIN createCalls : createCalls[k].owner # procs[i].pid
  /\ procs' = [procs EXCEPT ![i] = [@ EXCEPT !.pc = "set"]]
  /\ UNCHANGED << variant, browserVars, navVars, unhideQueue, createCalls, hideVars,
                  done, fnVars, externalVars, contextMenu >>

\* the identityStateSet of showTabs, with hiddenTabs emptied, is carried
\* out; showTabs returns and unhideContainer takes its entry off the queue
ShowSet(i) ==
  /\ i \in DOMAIN procs
  /\ procs[i].kind = "unhideContainer" /\ procs[i].pc = "set"
  /\ storage' = identityStateSet(procs[i].cookieStoreId,
                                 [procs[i].containerState EXCEPT !.hiddenTabs = << >>])
  /\ unhideQueue' = SpliceOut(unhideQueue, procs[i].cookieStoreId)
  /\ procs' = RemoveAt(procs, i)
  /\ UNCHANGED << variant, identities, tabs, navVars, createCalls, hideVars, done,
                  fnVars, externalVars, contextMenu >>

\* the user opens a tab: the browser creates it and tabs.onCreated fires
UserOpensTab(cookieStoreId, windowId, url) ==
  /\ opCount < MaxOps
  /\ opCount' = opCount + 1
  /\ LET tab == Tab(nextTabId, windowId, cookieStoreId, url, FALSE, TRUE, FALSE, NoTab)
     IN  /\ tabs' = InsertTab(tab, NoIndex)
         /\ onCreated(tab, procs)
  /\ nextTabId' = nextTabId + 1
  /\ UNCHANGED << variant, identities, storage, interceptorVars, createCalls,
                  removeCalls, moveCalls, nextWindowId, done, fnVars, externalVars, contextMenu >>

---------------------------------------------------------------------------
(* moveTabsToWindow.                                                       *)

MoveCall(cookieStoreId, windowId) ==
  [ kind |-> "moveTabsToWindow", pc |-> "query", cookieStoreId |-> cookieStoreId,
    windowId |-> windowId, list |-> << >>, containerState |-> NoRecord,
    newWindowId |-> NoWindow, firstTab |-> NoTab ]

\* the moveTabsToWindow message; checkArgs may throw
MoveTabsToWindowMessage(cookieStoreId, windowId) ==
  /\ opCount < MaxOps
  /\ opCount' = opCount + 1
  /\ procs' = IF checkArgsThrows(variant, cookieStoreId, windowId) THEN procs
              ELSE Append(procs, MoveCall(cookieStoreId, windowId))
  /\ UNCHANGED << variant, browserVars, navVars, unhideQueue, createCalls, moveCalls,
                  nextTabId, nextWindowId, nextPid, done, fnVars, externalVars, contextMenu >>

\* browser.tabs.query({cookieStoreId, windowId}) settles; identityStateGet
MoveQuery(i) ==
  /\ i \in DOMAIN procs
  /\ procs[i].kind = "moveTabsToWindow" /\ procs[i].pc = "query"
  /\ procs' = [procs EXCEPT ![i] = [@ EXCEPT !.pc = "stateGet",
                 !.list = TabIdsOf(TabsOfIn(tabs, procs[i].cookieStoreId,
                                            procs[i].windowId),
                                   procs[i].cookieStoreId)]]
  /\ UNCHANGED << variant, browserVars, navVars, unhideQueue, createCalls, hideVars,
                  done, fnVars, externalVars, contextMenu >>

\* the browser creates the window of browser.windows.create with its first
\* tab, for which tabs.onCreated fires
MoveWindow(i) ==
  /\ i \in DOMAIN procs
  /\ procs[i].kind = "moveTabsToWindow" /\ procs[i].pc = "window"
  /\ LET tab == Tab(nextTabId, nextWindowId, FirefoxDefault, DEFAULT_TAB,
                    FALSE, TRUE, FALSE, NoTab)
     IN  /\ tabs' = Append(tabs, tab)
         /\ onCreated(tab, [procs EXCEPT ![i] = [@ EXCEPT !.pc = "windowCreated",
                               !.newWindowId = nextWindowId, !.firstTab = nextTabId]])
  /\ nextTabId' = nextTabId + 1
  /\ nextWindowId' = nextWindowId + 1
  /\ UNCHANGED << variant, identities, storage, interceptorVars, createCalls,
                  removeCalls, moveCalls, opCount, done, fnVars, externalVars, contextMenu >>

RECURSIVE moveCreateCalls_NoContainer(_, _, _)
\* a slip: the cookieStoreId is left out of the tabs.create calls
moveCreateCalls_NoContainer(hiddenTabs, windowId, cookieStoreId) ==
  IF hiddenTabs = << >> THEN << >>
  ELSE << [ url |-> IF Head(hiddenTabs).url = Null \/ Head(hiddenTabs).url = << >>
                    THEN DEFAULT_TAB ELSE Head(hiddenTabs).url,
            confirm |-> NoRecord, cookieStoreId |-> Null,
            index |-> NoIndex, active |-> TRUE, openerTabId |-> NoTab,
            pinned |-> FALSE, windowId |-> windowId, owner |-> NoPid ] >>
       \o moveCreateCalls_NoContainer(Tail(hiddenTabs), windowId, cookieStoreId)

RECURSIVE moveCreateCalls(_, _, _)
\* the browser.tabs.create calls of moveTabsToWindow for the hidden tabs
moveCreateCalls(hiddenTabs, windowId, cookieStoreId) ==
  IF hiddenTabs = << >> THEN << >>
  ELSE << [ url |-> IF Head(hiddenTabs).url = Null \/ Head(hiddenTabs).url = << >>
                    THEN DEFAULT_TAB ELSE Head(hiddenTabs).url,
            confirm |-> NoRecord, cookieStoreId |-> cookieStoreId,
            index |-> NoIndex, active |-> TRUE, openerTabId |-> NoTab,
            pinned |-> FALSE, windowId |-> windowId, owner |-> NoPid ] >>
       \o moveCreateCalls(Tail(hiddenTabs), windowId, cookieStoreId)

\* moveTabsToWindow from "Let's show the hidden tabs" to its
\* browser.tabs.query({windowId})
MoveShowHidden(i) ==
  LET o == procs[i]
      queued == IndexOf(unhideQueue, o.cookieStoreId, 1) # 0
  IN  /\ unhideQueue' = IF queued THEN unhideQueue
                        ELSE Append(unhideQueue, o.cookieStoreId)
      /\ createCalls' = IF queued THEN createCalls
                        ELSE createCalls \o moveCreateCalls(o.containerState.hiddenTabs,
                                              o.newWindowId, o.cookieStoreId)
      /\ procs' = [procs EXCEPT ![i] = [@ EXCEPT !.pc = "query2"]]

\* browser.windows.create settles: with tabs to move, the first tab of the
\* window is to be pinned (browser.tabs.update is awaited); with none, the
\* hidden tabs are shown
MoveWindowCreated(i) ==
  /\ i \in DOMAIN procs
  /\ procs[i].kind = "moveTabsToWindow" /\ procs[i].pc = "windowCreated"
  /\ IF procs[i].list # << >>
     THEN /\ procs' = [procs EXCEPT ![i] = [@ EXCEPT !.pc = "update"]]
          /\ UNCHANGED << unhideQueue, createCalls >>
     ELSE MoveShowHidden(i)
  /\ UNCHANGED << variant, browserVars, navVars, hideVars, done, fnVars, externalVars, contextMenu >>

\* browser.tabs.update(firstTab.id, {pinned: true}) settles; tabs.move is
\* called and not awaited, and the hidden tabs are shown
MoveUpdate(i) ==
  /\ i \in DOMAIN procs
  /\ procs[i].kind = "moveTabsToWindow" /\ procs[i].pc = "update"
  /\ tabs' = [ k \in DOMAIN tabs |->
                 IF tabs[k].id = procs[i].firstTab
                 THEN [tabs[k] EXCEPT !.pinned = TRUE] ELSE tabs[k] ]
  /\ moveCalls' = moveCalls \cup { [ tabIds |-> procs[i].list,
                                     windowId |-> procs[i].newWindowId ] }
  /\ MoveShowHidden(i)
  /\ UNCHANGED << variant, identities, storage, navVars, nextTabId, nextWindowId,
                  nextPid, opCount, done, fnVars, externalVars, contextMenu >>

\* a slip: no tab of the new window is closed
moveTabsToWindowRemoves_None(newWindowId, cookieStoreId) == {}

\* the tabs moveTabsToWindow calls browser.tabs.remove for: the tabs of the
\* new window that are of another cookie store
moveTabsToWindowRemoves(newWindowId, cookieStoreId) ==
  { tabs[k].id : k \in { k \in DOMAIN tabs :
                           /\ tabs[k].windowId = newWindowId
                           /\ tabs[k].cookieStoreId # cookieStoreId } }

\* browser.tabs.query({windowId: newWindowObj.id}) settles: the tabs of
\* other cookie stores are removed, not awaited; identityStateSet is called
MoveQuery2(i) ==
  /\ i \in DOMAIN procs
  /\ procs[i].kind = "moveTabsToWindow" /\ procs[i].pc = "query2"
  /\ removeCalls' = removeCalls \cup
       moveTabsToWindowRemoves(procs[i].newWindowId, procs[i].cookieStoreId)
  /\ procs' = [procs EXCEPT ![i] = [@ EXCEPT !.pc = "set"]]
  /\ UNCHANGED << variant, browserVars, interceptorVars, lastCreatedTab,
                  lastCreatedTimers, unhideQueue, createCalls, hideVars, done, fnVars, externalVars, contextMenu >>

\* the identityStateSet of moveTabsToWindow, with hiddenTabs emptied, is
\* carried out and the queue entry is taken off
MoveSet(i) ==
  /\ i \in DOMAIN procs
  /\ procs[i].kind = "moveTabsToWindow" /\ procs[i].pc = "set"
  /\ storage' = identityStateSet(procs[i].cookieStoreId,
                                 [procs[i].containerState EXCEPT !.hiddenTabs = << >>])
  /\ unhideQueue' = SpliceOut(unhideQueue, procs[i].cookieStoreId)
  /\ procs' = RemoveAt(procs, i)
  /\ UNCHANGED << variant, identities, tabs, navVars, createCalls, hideVars, done,
                  fnVars, externalVars, contextMenu >>

RECURSIVE MovedTabs(_, _)
\* the open tabs among ids, in the order of ids, put into the window
MovedTabs(ids, windowId) ==
  IF ids = << >> THEN << >>
  ELSE (IF Head(ids) \in OpenTabIds
        THEN << [tabs[TabPos(Head(ids))] EXCEPT !.windowId = windowId] >>
        ELSE << >>)
       \o MovedTabs(Tail(ids), windowId)

\* the browser carries out a browser.tabs.move(ids, {windowId, index: -1})
BrowserMovesTabs(call) ==
  /\ call \in moveCalls
  /\ moveCalls' = moveCalls \ {call}
  /\ tabs' = FilterSeq(tabs, SeqToSet(call.tabIds))
               \o MovedTabs(call.tabIds, call.windowId)
  /\ UNCHANGED << variant, identities, storage, navVars, unhideQueue, procs,
                  createCalls, nextTabId, nextWindowId, nextPid, opCount, done, fnVars, externalVars, contextMenu >>

---------------------------------------------------------------------------
(* The tab orchestrator model: container 3 with a pinned tab and with     *)
(* tabs at a chrome:, a moz-extension: and an about: url in window 1, a    *)
(* tab of the default context beside them, and a container state that is   *)
(* absent or holds one hidden tab.                                         *)

\* chrome://x
ChromeUrl == ChromeProtocol \o <<"/","/","x">>

HideTabs ==
  << Tab(1, 1, Container3, UrlA, TRUE, FALSE, FALSE, NoTab),
     Tab(2, 1, Container3, ChromeUrl, FALSE, FALSE, FALSE, NoTab),
     Tab(3, 1, Container3, ConfirmPageUrl, FALSE, FALSE, FALSE, NoTab),
     Tab(4, 1, Container3, DEFAULT_TAB, FALSE, TRUE, FALSE, NoTab),
     Tab(5, 1, FirefoxDefault, UrlB, FALSE, FALSE, FALSE, NoTab) >>

\* a tab of container 3 hidden earlier
EarlierHidden == Snapshot(Tab(6, 1, Container3, UrlB, FALSE, FALSE, FALSE, NoTab))

HideStorages ==
  { << >>,
    getContainerStoreKey(Container3) :> ContainerState(<< EarlierHidden >>) }

\* the id of the first tab the browser creates in the model
FirstNewTabId == 7

InitHide ==
  /\ variant \in {1, 2}
  /\ identities = { <<"3">> }
  /\ tabs = HideTabs
  /\ storage \in HideStorages
  /\ exemptedTabs = << >>
  /\ canceledRequests = << >>
  /\ ledgerTimers = << >>
  /\ lastCreatedTab = NoTab
  /\ lastCreatedTimers = 0
  /\ unhideQueue = << >>
  /\ nav = << >>
  /\ procs = << >>
  /\ createCalls = << >>
  /\ removeCalls = {}
  /\ response = Response(FALSE, "none")
  /\ navCount = 0
  /\ moveCalls = {}
  /\ nextTabId = FirstNewTabId
  /\ nextWindowId = 3
  /\ nextPid = 1
  /\ opCount = 0
  /\ done = {}
  /\ contextMenu = ContextMenuItems
  /\ externalExtensionAllowed = {}
  /\ management = << >>
  /\ fnIn = << >>
  /\ fnOut = << >>

\* the steps of the invocations in flight and of the browser
HideSteps ==
  \/ \E i \in DOMAIN procs : IdentityStateGet(i)
  \/ \E i \in DOMAIN procs : IdentityStateDefault(i)
  \/ \E i \in DOMAIN procs : HideStoreQuery(i)
  \/ \E i \in DOMAIN procs : HideStoreSet(i)
  \/ \E i \in DOMAIN procs : HideCloseQuery(i)
  \/ \E i \in DOMAIN procs : HideCloseRemove(i)
  \/ \E i \in DOMAIN procs : ShowCreatesDone(i)
  \/ \E i \in DOMAIN procs : ShowSet(i)
  \/ \E i \in DOMAIN procs : MoveQuery(i)
  \/ \E i \in DOMAIN procs : MoveWindow(i)
  \/ \E i \in DOMAIN procs : MoveWindowCreated(i)
  \/ \E i \in DOMAIN procs : MoveUpdate(i)
  \/ \E i \in DOMAIN procs : MoveQuery2(i)
  \/ \E i \in DOMAIN procs : MoveSet(i)
  \/ BrowserCreatesTab
  \/ \E call \in moveCalls : BrowserMovesTabs(call)
  \/ \E tabId \in removeCalls : BrowserRemovesTab(tabId)

NextHide ==
  \/ HideTabsMessage(Container3, 1)
  \/ ShowTabsMessage(Container3)
  \/ MoveTabsToWindowMessage(Container3, 1)
  \/ UserOpensTab(Container3, 1, UrlA)
  \/ HideSteps

SpecHide == InitHide /\ [][NextHide]_vars

---------------------------------------------------------------------------
(* Properties of the Container Tab-State Store, checked under SpecHide.    *)

\* the persisted hiddenTabs lists, by store key
HiddenTabsKeys == { k \in DOMAIN storage : "hiddenTabs" \in DOMAIN storage[k] }

\* C9: no snapshot of a persisted hiddenTabs list has an about:, chrome: or
\* moz-extension: url, and every snapshot has active = false and
\* hiddenState = true.
C9_NoImpermissibleSnapshot ==
  \A k \in HiddenTabsKeys :
    \A j \in DOMAIN storage[k].hiddenTabs :
      LET object == storage[k].hiddenTabs[j]
      IN  /\ UrlProtocol(object.url)
               \notin { AboutProtocol, ChromeProtocol, MozExtensionProtocol }
          /\ object.active = FALSE
          /\ object.hiddenState = TRUE

\* C9 witness: storeHidden has persisted the snapshot of tab 1 while the
\* chrome:, moz-extension: and about: tabs it queried with it are open
C9_Witness ==
  /\ \E j \in DOMAIN PersistedHiddenTabs(Container3) :
       PersistedHiddenTabs(Container3)[j].id = 1
  /\ {2, 3, 4} \subseteq OpenTabIds

\* the ids of the open tabs of a cookie store
OpenIn(cookieStoreId) ==
  { tabs[k].id : k \in { k \in DOMAIN tabs : tabs[k].cookieStoreId = cookieStoreId } }

\* the ids of the snapshots persisted for a cookie store
HiddenIn(cookieStoreId) ==
  { PersistedHiddenTabs(cookieStoreId)[j].id :
      j \in DOMAIN PersistedHiddenTabs(cookieStoreId) }

\* C10 (as stated): in every reachable state no tab with a snapshot in the
\* persisted hiddenTabs list of a container is an open tab of that container.
C10_OpenAndHiddenDisjoint ==
  \A cookieStoreId \in { Container3, FirefoxDefault } :
    OpenIn(cookieStoreId) \cap HiddenIn(cookieStoreId) = {}

\* nothing is in flight: no invocation, no call the browser has yet to carry out
Quiescent ==
  /\ procs = << >>
  /\ createCalls = << >>
  /\ removeCalls = {}
  /\ moveCalls = {}

\* C10 in the states where nothing is in flight
C10_DisjointWhenQuiescent == Quiescent => C10_OpenAndHiddenDisjoint

---------------------------------------------------------------------------
(* The hide-then-show model: the tabs of container 3 in window 1 are       *)
(* hidden and, once that has ended, shown, with nothing else in between.   *)

\* bound of the hide-then-show model: open tabs of the container
MaxTabs == 3

TabKinds ==
  { [ url |-> UrlA, pinned |-> TRUE ], [ url |-> UrlA, pinned |-> FALSE ],
    [ url |-> UrlB, pinned |-> FALSE ], [ url |-> DEFAULT_TAB, pinned |-> FALSE ] }

\* the tab lists of a window: the pinned tabs come first
TabKindLists ==
  { l \in UNION { [ 1 .. n -> TabKinds ] : n \in 0 .. MaxTabs } :
      \A j, k \in DOMAIN l : (j < k /\ l[k].pinned) => l[j].pinned }

\* the open tabs for a list: the container's tabs in window 1 and, after
\* them, the active tab, of the default context
HideShowTabs(l) ==
  [ k \in DOMAIN l |-> Tab(k, 1, Container3, l[k].url, l[k].pinned, FALSE, FALSE, NoTab) ]
    \o << Tab(5, 1, FirefoxDefault, UrlB, FALSE, TRUE, FALSE, NoTab) >>

HideShowStorages ==
  { << >>,
    getContainerStoreKey(Container3) :> ContainerState(<< >>),
    getContainerStoreKey(Container3) :> ContainerState(<< EarlierHidden >>) }

InitHideShow ==
  /\ variant \in {1, 2}
  /\ identities = { <<"3">> }
  /\ \E l \in TabKindLists : tabs = HideShowTabs(l)
  /\ storage \in HideShowStorages
  \* the tabs of the container that are open and those that are hidden
  \* before hideTabs
  /\ fnIn = [ tabs |-> TabsOfIn(tabs, Container3, 1),
              hiddenTabs |-> PersistedHiddenTabs(Container3) ]
  /\ fnOut = << >>
  /\ exemptedTabs = << >>
  /\ canceledRequests = << >>
  /\ ledgerTimers = << >>
  /\ lastCreatedTab = NoTab
  /\ lastCreatedTimers = 0
  /\ unhideQueue = << >>
  /\ nav = << >>
  /\ procs = << >>
  /\ createCalls = << >>
  /\ removeCalls = {}
  /\ response = Response(FALSE, "none")
  /\ navCount = 0
  /\ moveCalls = {}
  /\ nextTabId = FirstNewTabId
  /\ nextWindowId = 3
  /\ nextPid = 1
  /\ opCount = 0
  /\ done = {}
  /\ contextMenu = ContextMenuItems
  /\ externalExtensionAllowed = {}
  /\ management = << >>

NextHideShow ==
  \/ opCount = 0 /\ HideTabsMessage(Container3, 1)
  \/ opCount = 1 /\ Quiescent /\ ShowTabsMessage(Container3)
  \/ \E i \in DOMAIN procs : IdentityStateGet(i)
  \/ \E i \in DOMAIN procs : IdentityStateDefault(i)
  \/ \E i \in DOMAIN procs : HideStoreQuery(i)
  \/ \E i \in DOMAIN procs : HideStoreSet(i)
  \/ \E i \in DOMAIN procs : HideCloseQuery(i)
  \/ \E i \in DOMAIN procs : HideCloseRemove(i)
  \/ \E i \in DOMAIN procs : ShowCreatesDone(i)
  \/ \E i \in DOMAIN procs : ShowSet(i)
  \/ BrowserCreatesTab

SpecHideShow == InitHideShow /\ [][NextHideShow]_vars

\* hideTabs and then unhideContainer have run to their end
HideShowDone == opCount = 2 /\ Quiescent

RECURSIVE UrlsAndPins(_)
\* the urls and pinned flags of a list of tabs, in its order
UrlsAndPins(seq) ==
  IF seq = << >> THEN << >>
  ELSE << << Head(seq).url, Head(seq).pinned >> >> \o UrlsAndPins(Tail(seq))

RECURSIVE TabsFrom(_, _)
\* the tabs of seq the browser created in the model, in the order of seq
TabsFrom(seq, firstId) ==
  IF seq = << >> THEN << >>
  ELSE (IF Head(seq).id >= firstId THEN << Head(seq) >> ELSE << >>)
       \o TabsFrom(Tail(seq), firstId)

\* the tabs of container 3 opened since the start, in their window order
Reopened == TabsFrom(TabsOfIn(tabs, Container3, 1), FirstNewTabId)

RECURSIVE Permissible(_)
\* the tabs of seq whose url is no about:, chrome: or moz-extension: url
Permissible(seq) ==
  IF seq = << >> THEN << >>
  ELSE (IF UrlProtocol(Head(seq).url)
             \in { AboutProtocol, ChromeProtocol, MozExtensionProtocol }
        THEN << >> ELSE << Head(seq) >>)
       \o Permissible(Tail(seq))

\* C8 (as stated): after hideTabs and then unhideContainer the reopened
\* tabs have the urls and pinned flags of the tabs that were open before
\* hiding, in their order, and the persisted hiddenTabs list is empty.
C8_RoundTripAllTabs ==
  HideShowDone =>
    /\ UrlsAndPins(Reopened) = UrlsAndPins(fnIn.tabs)
    /\ PersistedHiddenTabs(Container3) = << >>

\* C8 (amended): for a container without hidden tabs before, the reopened
\* tabs have the urls and pinned flags of the tabs that were open before
\* hiding at a url that is no about:, chrome: or moz-extension: url, in
\* their order; the persisted hiddenTabs list is empty afterwards, whatever
\* was hidden before.
C8_RoundTripPermissibleTabs ==
  HideShowDone =>
    /\ fnIn.hiddenTabs = << >>
         => UrlsAndPins(Reopened) = UrlsAndPins(Permissible(fnIn.tabs))
    /\ PersistedHiddenTabs(Container3) = << >>
    /\ OpenIn(Container3) \cap { fnIn.tabs[k].id : k \in DOMAIN fnIn.tabs } = {}

\* C8 witness: a pinned tab, a tab at http://b.com/ and a tab at
\* about:newtab were hidden and the first two have been reopened
C8_Witness ==
  /\ HideShowDone
  /\ fnIn.hiddenTabs = << >>
  /\ UrlsAndPins(fnIn.tabs)
       = << << UrlA, TRUE >>, << UrlB, FALSE >>, << DEFAULT_TAB, FALSE >> >>
  /\ UrlsAndPins(Reopened) = << << UrlA, TRUE >>, << UrlB, FALSE >> >>

---------------------------------------------------------------------------
(* The unhide model: container 3 has two hidden tabs and may have an open  *)
(* tab in window 1; showTabs and moveTabsToWindow messages arrive and the  *)
(* user opens tabs, in any interleaving. hideTabs is not called, so no     *)
(* snapshot is added to the hidden tabs the model starts with.             *)

\* the hidden tabs of container 3: http://b.com/ and http://a.com/, pinned
UnhideHidden ==
  << EarlierHidden, Snapshot(Tab(8, 1, Container3, UrlA, TRUE, FALSE, FALSE, NoTab)) >>

\* the id of the first tab the browser creates in the unhide model
FirstUnhideTabId == 9

UnhideTabs ==
  { << Tab(5, 1, FirefoxDefault, UrlB, FALSE, TRUE, FALSE, NoTab) >>,
    << Tab(1, 1, Container3, UrlExample, FALSE, FALSE, FALSE, NoTab),
       Tab(5, 1, FirefoxDefault, UrlB, FALSE, TRUE, FALSE, NoTab) >> }

InitUnhide ==
  /\ variant \in {1, 2}
  /\ identities = { <<"3">> }
  /\ tabs \in UnhideTabs
  /\ storage = getContainerStoreKey(Container3) :> ContainerState(UnhideHidden)
  /\ exemptedTabs = << >>
  /\ canceledRequests = << >>
  /\ ledgerTimers = << >>
  /\ lastCreatedTab = NoTab
  /\ lastCreatedTimers = 0
  /\ unhideQueue = << >>
  /\ nav = << >>
  /\ procs = << >>
  /\ createCalls = << >>
  /\ removeCalls = {}
  /\ response = Response(FALSE, "none")
  /\ navCount = 0
  /\ moveCalls = {}
  /\ nextTabId = FirstUnhideTabId
  /\ nextWindowId = 3
  /\ nextPid = 1
  /\ opCount = 0
  /\ done = {}
  /\ contextMenu = ContextMenuItems
  /\ externalExtensionAllowed = {}
  /\ management = << >>
  /\ fnIn = << >>
  /\ fnOut = << >>

NextUnhide ==
  \/ ShowTabsMessage(Container3)
  \/ MoveTabsToWindowMessage(Container3, 1)
  \/ UserOpensTab(Container3, 1, UrlExample)
  \/ \E i \in DOMAIN procs : IdentityStateGet(i)
  \/ \E i \in DOMAIN procs : IdentityStateDefault(i)
  \/ \E i \in DOMAIN procs : ShowCreatesDone(i)
  \/ \E i \in DOMAIN procs : ShowSet(i)
  \/ \E i \in DOMAIN procs : MoveQuery(i)
  \/ \E i \in DOMAIN procs : MoveWindow(i)
  \/ \E i \in DOMAIN procs : MoveWindowCreated(i)
  \/ \E i \in DOMAIN procs : MoveUpdate(i)
  \/ \E i \in DOMAIN procs : MoveQuery2(i)
  \/ \E i \in DOMAIN procs : MoveSet(i)
  \/ BrowserCreatesTab
  \/ \E call \in moveCalls : BrowserMovesTabs(call)
  \/ \E tabId \in removeCalls : BrowserRemovesTab(tabId)

SpecUnhide == InitUnhide /\ [][NextUnhide]_vars

\* how often the snapshot has been reopened: the tabs of its container the
\* browser created at its url and the tabs.create calls for it not yet
\* carried out (in the unhide model nothing else opens a tab at that url)
TimesOpened(snapshot) ==
  Cardinality({ k \in DOMAIN tabs :
                  /\ tabs[k].id >= FirstUnhideTabId
                  /\ tabs[k].cookieStoreId = snapshot.cookieStoreId
                  /\ tabs[k].url = snapshot.url })
  + Cardinality({ k \in DOMAIN createCalls :
                    /\ createCalls[k].cookieStoreId = snapshot.cookieStoreId
                    /\ createCalls[k].url = snapshot.url })

\* C11 (as stated): under any interleaving of showTabs messages, the
\* unhideContainer calls of tab-created events and moveTabsToWindow, no
\* hidden snapshot is reopened as a tab more than once.
C11_SnapshotOpenedAtMostOnce ==
  \A j \in DOMAIN UnhideHidden : TimesOpened(UnhideHidden[j]) <= 1

\* the part of C11 the queue does guarantee: showTabs messages and
\* tab-created events alone (no moveTabsToWindow was called) reopen no
\* snapshot twice
C11_ShowAloneOpensOnce ==
  (\A i \in DOMAIN procs : procs[i].kind # "moveTabsToWindow")
  /\ nextWindowId = 3
    => C11_SnapshotOpenedAtMostOnce

---------------------------------------------------------------------------
(* The unhide model with a failing store: a browser.storage.local call an  *)
(* unhide operation awaits may reject.                                     *)

\* the browser.storage.local get or set that invocation i awaits rejects:
\* identityStateGet / identityStateSet reject, and with them showTabs and
\* unhideContainer, or moveTabsToWindow; no later statement of theirs runs
StoreCallRejects(i) ==
  /\ i \in DOMAIN procs
  /\ procs[i].kind \in { "unhideContainer", "moveTabsToWindow" }
  /\ procs[i].pc \in { "stateGet", "stateDefault", "set" }
  /\ procs' = RemoveAt(procs, i)
  /\ UNCHANGED << variant, browserVars, navVars, unhideQueue, createCalls, hideVars,
                  done, fnVars, externalVars, contextMenu >>

NextUnhideReject ==
  \/ NextUnhide
  \/ \E i \in DOMAIN procs : StoreCallRejects(i)

SpecUnhideReject == InitUnhide /\ [][NextUnhideReject]_vars

\* an unhideContainer or moveTabsToWindow operation on the container is in
\* progress
UnhideInProgress(cookieStoreId) ==
  \E i \in DOMAIN procs :
    /\ procs[i].kind \in { "unhideContainer", "moveTabsToWindow" }
    /\ procs[i].cookieStoreId = cookieStoreId

\* C12 (as stated): a container id is in the UnhideQueue only while an
\* unhideContainer or moveTabsToWindow operation on that container is in
\* progress, also after an operation ended because a store call rejected.
C12_QueuedOnlyWhileInProgress ==
  \A k \in DOMAIN unhideQueue : UnhideInProgress(unhideQueue[k])

---------------------------------------------------------------------------
(* The navigation model without completed/error events: the browser never  *)
(* delivers webRequest.onCompleted or onErrorOccurred, and a timer that    *)
(* was set fires in the end.                                               *)

NextNavTimer ==
  \/ \E tabId \in {1, 2}, url \in NavUrls, requestId \in RequestIds :
       NavEvent(tabId, url, requestId, 0)
  \/ \E tabId \in {3, 4} : NavEvent(tabId, UrlExample, "r1", 0)
  \/ NavEvent(1, UrlExample, "r1", 1)
  \/ NavEvent(-1, UrlExample, "r1", 0)
  \/ \E i \in 1 .. MaxNav : NavLookup(i)
  \/ \E i \in 1 .. MaxNav : NavContainer(i)
  \/ \E tabId \in NavTabIds : LedgerTimerFires(tabId)
  \/ LastCreatedTimerFires
  \/ ExemptTab(UrlExample, 1)
  \/ \E tabId \in NavTabIds : BrowserRemovesTab(tabId)
  \/ \E i \in DOMAIN procs : DeleteQuery(i)
  \/ \E i \in DOMAIN procs : DeleteRemove(i)
  \/ \E i \in DOMAIN procs : DeleteIdentityRemove(i)
  \/ \E i \in DOMAIN procs : StorageDeleteGet(i)
  \/ \E i \in DOMAIN procs : StorageDeleteRemove(i)

\* a setTimeout callback is run once its delay has passed
SpecNavTimer ==
  /\ InitNav
  /\ [][NextNavTimer]_vars
  /\ \A tabId \in NavTabIds : WF_vars(LedgerTimerFires(tabId))

\* the url a tabs.create call of reloadPageInContainer reroutes
RerouteUrl(call) ==
  IF call.confirm = NoRecord THEN call.url ELSE call.confirm.url

\* C13: without any completed/error event, every ledger entry is deleted in
\* the end, by its timer; and a reroute-candidate navigation handled while
\* its tab has no ledger entry is rerouted, whatever was canceled on the tab
\* before.
C13_LedgerEntryExpires ==
  /\ \A tabId \in NavTabIds :
       (tabId \in DOMAIN canceledRequests) ~> (tabId \notin DOMAIN canceledRequests)
  /\ [][\A i \in 1 .. MaxNav :
          ( /\ NavDecides(i)
            /\ CandidateBranch(i)
            /\ nav[i].tabId \notin DOMAIN canceledRequests )
            => /\ response' = Response(TRUE, "rerouted")
               /\ Len(createCalls') = Len(createCalls) + 1
               /\ RerouteUrl(createCalls'[Len(createCalls')]) = nav[i].url]_vars

\* C13 witness: in variant 1, where tab 1 alone is rerouted, the same url
\* was rerouted twice and no ledger entry is left: the timer deleted the
\* entry of the first reroute before the second navigation was handled
C13_Witness ==
  /\ variant = 1
  /\ Len(createCalls) = 2
  /\ RerouteUrl(createCalls[1]) = RerouteUrl(createCalls[2])
  /\ canceledRequests = << >>
  /\ \A tabId \in NavTabIds : ledgerTimers[tabId] = 0

---------------------------------------------------------------------------
(* The move model: one moveTabsToWindow message for container 3 and        *)
(* window 1, where the container has two hidden tabs and no open tab or    *)
(* one open tab, and nothing else is asked for.                            *)

InitMove ==
  /\ variant \in {1, 2}
  /\ identities = { <<"3">> }
  /\ tabs \in UnhideTabs
  /\ storage = getContainerStoreKey(Container3) :> ContainerState(UnhideHidden)
  \* the tabs of the container that are open in window 1 and those that are
  \* hidden before moveTabsToWindow
  /\ fnIn = [ tabs |-> TabsOfIn(tabs, Container3, 1),
              hiddenTabs |-> PersistedHiddenTabs(Container3) ]
  /\ fnOut = << >>
  /\ exemptedTabs = << >>
  /\ canceledRequests = << >>
  /\ ledgerTimers = << >>
  /\ lastCreatedTab = NoTab
  /\ lastCreatedTimers = 0
  /\ unhideQueue = << >>
  /\ nav = << >>
  /\ procs = << >>
  /\ createCalls = << >>
  /\ removeCalls = {}
  /\ response = Response(FALSE, "none")
  /\ navCount = 0
  /\ moveCalls = {}
  /\ nextTabId = FirstUnhideTabId
  /\ nextWindowId = 3
  /\ nextPid = 1
  /\ opCount = 0
  /\ done = {}
  /\ contextMenu = ContextMenuItems
  /\ externalExtensionAllowed = {}
  /\ management = << >>

\* showTabs, started by tabs.onCreated, finds no hidden tab here and has no
\* tab creation to wait for
NextMove ==
  \/ opCount = 0 /\ MoveTabsToWindowMessage(Container3, 1)
  \/ \E i \in DOMAIN procs : IdentityStateGet(i)
  \/ \E i \in DOMAIN procs : IdentityStateDefault(i)
  \/ \E i \in DOMAIN procs : ShowSet(i)
  \/ \E i \in DOMAIN procs : MoveQuery(i)
  \/ \E i \in DOMAIN procs : MoveWindow(i)
  \/ \E i \in DOMAIN procs : MoveWindowCreated(i)
  \/ \E i \in DOMAIN procs : MoveUpdate(i)
  \/ \E i \in DOMAIN procs : MoveQuery2(i)
  \/ \E i \in DOMAIN procs : MoveSet(i)
  \/ BrowserCreatesTab
  \/ \E call \in moveCalls : BrowserMovesTabs(call)
  \/ \E tabId \in removeCalls : BrowserRemovesTab(tabId)
  \/ LastCreatedTimerFires

SpecMove == InitMove /\ [][NextMove]_vars

\* moveTabsToWindow, the calls it issued and the listeners they fired have
\* run to their end
MoveDone == opCount = 1 /\ Quiescent

\* the tabs of a window, in tab-strip order
TabsInWindow(windowId) == SelectSeq(tabs, LAMBDA tab : tab.windowId = windowId)

\* C14: moveTabsToWindow for a container with no open tab in the source
\* window and two hidden snapshots creates one window, and when everything
\* it started has finished that window holds exactly two tabs, one at the
\* url of each snapshot and both in the container; the window's default
\* blank tab is closed.
C14_MoveHiddenOnly ==
  (MoveDone /\ fnIn.tabs = << >>)
    => /\ nextWindowId = 4
       /\ Len(TabsInWindow(3)) = 2
       /\ { TabsInWindow(3)[k].url : k \in 1 .. 2 }
            = { fnIn.hiddenTabs[k].url : k \in 1 .. 2 }
       /\ \A k \in 1 .. 2 : TabsInWindow(3)[k].cookieStoreId = Container3
       /\ PersistedHiddenTabs(Container3) = << >>

\* C14 witness: the move of the hidden tabs alone has ended and the new
\* window holds the tabs at http://b.com/ and http://a.com/
C14_Witness ==
  /\ MoveDone
  /\ fnIn.tabs = << >>
  /\ Len(fnIn.hiddenTabs) = 2
  /\ Len(TabsInWindow(3)) = 2
  /\ TabsInWindow(3)[1].url = UrlB
  /\ TabsInWindow(3)[2].url = UrlA

---------------------------------------------------------------------------
(* sortTabs and _sortTabsInternal.                                         *)

\* the code unit of a digit
CharCode(c) ==
  CASE c = "0" -> 48 [] c = "1" -> 49 [] c = "2" -> 50 [] c = "3" -> 51
    [] c = "4" -> 52 [] c = "5" -> 53 [] c = "6" -> 54 [] c = "7" -> 55
    [] c = "8" -> 56 [] c = "9" -> 57

RECURSIVE StringLess(_, _)
\* a.localeCompare(b) < 0 for strings of digits
StringLess(a, b) ==
  IF a = << >> THEN b # << >>
  ELSE IF b = << >> THEN FALSE
  ELSE IF Head(a) = Head(b) THEN StringLess(Tail(a), Tail(b))
  ELSE CharCode(Head(a)) < CharCode(Head(b))

RECURSIVE PinnedPrefix(_)
\* the tabs the pinned pass looks at: it breaks at the first unpinned tab
PinnedPrefix(list) ==
  IF list = << >> \/ ~ Head(list).pinned THEN << >>
  ELSE << Head(list) >> \o PinnedPrefix(Tail(list))

\* the tabs a pass of _sortTabsInternal puts into its map: variant 1 skips
\* the tabs without a userContextId, variant 2 files them under the key false
SortMapped(v, list, pinnedTabs) ==
  LET seen == IF pinnedTabs THEN PinnedPrefix(list)
              ELSE SelectSeq(list, LAMBDA tab : ~ tab.pinned)
  IN  IF v = 1
      THEN SelectSeq(seen, LAMBDA tab :
                       getUserContextIdFromCookieStoreId(tab.cookieStoreId) # Null)
      ELSE seen

\* pos when the moves begin: the unpinned pass counts the pinned tabs
SortStartPos(list, pinnedTabs) ==
  IF pinnedTabs THEN 0 ELSE Len(SelectSeq(list, LAMBDA tab : tab.pinned))

\* the orders the sort of the map entries can give. Variant 1 compares the
\* keys with localeCompare. The comparator of variant 2, a[0] > b[0], yields
\* a boolean and is not a consistent comparator: the order is
\* implementation-defined, any order of the keys
SortMapOrders(v, keys) ==
  { order \in [ 1 .. Cardinality(keys) -> keys ] :
      /\ \A j, k \in DOMAIN order : j # k => order[j] # order[k]
      /\ v = 1 => \A j, k \in DOMAIN order : j < k => StringLess(order[j], order[k]) }

RECURSIVE SortedTabIds(_, _)
\* the ids of the tabs of the map in the order of the sorted keys
SortedTabIds(mapped, order) ==
  IF order = << >> THEN << >>
  ELSE LET group == SelectSeq(mapped, LAMBDA tab :
                      getUserContextIdFromCookieStoreId(tab.cookieStoreId) = Head(order))
       IN  [ j \in 1 .. Len(group) |-> group[j].id ] \o SortedTabIds(mapped, Tail(order))

\* the keys of the map of a pass
SortMapKeys(v, list, pinnedTabs) ==
  LET mapped == SortMapped(v, list, pinnedTabs)
  IN  { getUserContextIdFromCookieStoreId(mapped[j].cookieStoreId) : j \in DOMAIN mapped }

\* the browser.tabs.move calls of one pass, given the order of the sorted
\* keys: pos is incremented before each call. seq numbers the calls in the
\* order the browser receives them
_sortTabsInternal(v, list, windowId, pinnedTabs, order, firstSeq) ==
  LET ids == SortedTabIds(SortMapped(v, list, pinnedTabs), order)
      pos == SortStartPos(list, pinnedTabs)
  IN  { [ tabIds |-> << ids[j] >>, windowId |-> windowId, index |-> pos + j,
          seq |-> firstSeq + j - 1 ] : j \in DOMAIN ids }

\* browser.tabs.move(tabId, {windowId, index}) within the tab's window: a
\* pinned tab goes only into the pinned tabs, an unpinned tab only behind
\* them (another index is ignored); the tab is taken out and put back at
\* the index, at the end if the index is past the end
MoveTabTo(list, tabId, index) ==
  LET numPinned == Len(SelectSeq(list, LAMBDA tab : tab.pinned))
      found == { k \in DOMAIN list : list[k].id = tabId }
  IN  IF found = {} \/ Len(list) = 1 THEN list
      ELSE LET k == CHOOSE k \in found : TRUE
               tab == list[k]
               rest == SubSeq(list, 1, k - 1) \o SubSeq(list, k + 1, Len(list))
               bounded == IF tab.pinned /\ index > numPinned - 1
                          THEN numPinned - 1 ELSE index
               at == IF bounded > Len(rest) THEN Len(rest) ELSE bounded
           IN  IF (tab.pinned /\ index > numPinned) \/ (~ tab.pinned /\ index < numPinned)
               THEN list
               ELSE SubSeq(rest, 1, at) \o << tab >> \o SubSeq(rest, at + 1, Len(rest))

\* the largest tab list of the sorted window
MaxSortTabs == 4

SortTabKinds ==
  { [ cookieStoreId |-> c, pinned |-> p ] :
      c \in { Container3, Container5, FirefoxDefault }, p \in BOOLEAN }

\* the arrangements of the window: the pinned tabs come first
SortTabs ==
  UNION { { [ j \in 1 .. n |-> Tab(j, 1, kinds[j].cookieStoreId, UrlA,
                                   kinds[j].pinned, j = 1, FALSE, NoTab) ] :
              kinds \in { f \in [ 1 .. n -> SortTabKinds ] :
                            \A j \in 1 .. n - 1 : f[j + 1].pinned => f[j].pinned } } :
          n \in 0 .. MaxSortTabs }

InitSort ==
  /\ variant \in {1, 2}
  /\ identities = { <<"3">>, <<"5">> }
  /\ tabs \in SortTabs
  /\ storage = << >>
  /\ fnIn = tabs
  \* the order of the tabs when each sortTabs message arrives
  /\ fnOut = << >>
  /\ exemptedTabs = << >>
  /\ canceledRequests = << >>
  /\ ledgerTimers = << >>
  /\ lastCreatedTab = NoTab
  /\ lastCreatedTimers = 0
  /\ unhideQueue = << >>
  /\ nav = << >>
  /\ procs = << >>
  /\ createCalls = << >>
  /\ removeCalls = {}
  /\ response = Response(FALSE, "none")
  /\ navCount = 0
  /\ moveCalls = {}
  /\ nextTabId = MaxSortTabs + 1
  /\ nextWindowId = 2
  /\ nextPid = 1
  /\ opCount = 0
  /\ done = {}
  /\ contextMenu = ContextMenuItems
  /\ externalExtensionAllowed = {}
  /\ management = << >>

\* the sortTabs message: the next one is sent when the one before is through
SortTabsMessage ==
  /\ opCount < MaxOps
  /\ Quiescent
  /\ opCount' = opCount + 1
  /\ procs' = Append(procs, [ kind |-> "sortTabs", pc |-> "pinned", windowId |-> 1 ])
  /\ fnOut' = Append(fnOut, tabs)
  /\ UNCHANGED << variant, browserVars, navVars, unhideQueue, createCalls, moveCalls,
                  nextTabId, nextWindowId, nextPid, done, fnIn,
                  externalVars, contextMenu >>

\* sortTabs after the tabs.query of a pass: the browser answers the calls
\* in the order it received them, the query after the moves before it
SortTabsQueried(i) ==
  /\ i \in DOMAIN procs
  /\ procs[i].kind = "sortTabs"
  /\ moveCalls = {}
  /\ LET pinnedTabs == procs[i].pc = "pinned"
         list == SelectSeq(tabs, LAMBDA tab : tab.windowId = procs[i].windowId)
     IN  /\ \E order \in SortMapOrders(variant, SortMapKeys(variant, list, pinnedTabs)) :
               moveCalls' = _sortTabsInternal(variant, list, procs[i].windowId,
                                              pinnedTabs, order, 1)
         /\ procs' = IF pinnedTabs THEN [ procs EXCEPT ![i].pc = "unpinned" ]
                     ELSE RemoveAt(procs, i)
  /\ UNCHANGED << variant, browserVars, navVars, unhideQueue, createCalls,
                  nextTabId, nextWindowId, nextPid, opCount, done, fnVars, externalVars, contextMenu >>

\* the browser carries out the oldest browser.tabs.move call of sortTabs
BrowserMovesTabTo(call) ==
  /\ call \in moveCalls
  /\ \A other \in moveCalls : call.seq <= other.seq
  /\ moveCalls' = moveCalls \ {call}
  /\ tabs' = MoveTabTo(tabs, call.tabIds[1], call.index)
  /\ UNCHANGED << variant, identities, storage, navVars, unhideQueue, procs,
                  createCalls, nextTabId, nextWindowId, nextPid, opCount, done, fnVars, externalVars, contextMenu >>

NextSort ==
  \/ SortTabsMessage
  \/ \E i \in DOMAIN procs : SortTabsQueried(i)
  \/ \E call \in moveCalls : BrowserMovesTabTo(call)

SpecSort == InitSort /\ [][NextSort]_vars

\* C15: sortTabs is idempotent: when a sortTabs is through, the tabs are in the
\* order in which a sortTabs before it left them
C15_SortTabsIdempotent ==
  (Quiescent /\ Len(fnOut) >= 2) => tabs = fnOut[Len(fnOut)]

\* the same for the windows where every tab has a container and nothing is
\* pinned, in variant 1
C15_IdempotentAllInContainers ==
  (/\ Quiescent
   /\ Len(fnOut) >= 2
   /\ variant = 1
   /\ \A k \in DOMAIN tabs : tabs[k].cookieStoreId # FirefoxDefault /\ ~ tabs[k].pinned)
    => tabs = fnOut[Len(fnOut)]

---------------------------------------------------------------------------
(* getCookieStoreId and getUserContextIdFromCookieStoreId, one after the   *)
(* other.                                                                  *)

\* userContextIds: the ids of contextual identities as strings, and the
\* empty string
ConversionIds ==
  { << >>, <<"0">>, <<"1">>, <<"3">>, <<"5">>, <<"1","0">>, <<"4","2">>,
    <<"9","9","9">> }

\* the cookie store ids the browser gives to tabs, and no cookie store id
ConversionCookieStoreIds ==
  { Null, << >>, FirefoxDefault, FirefoxPrivate, ContainerPrefix, Container0,
    Container3, Container5, ContainerPrefix \o <<"1","0">> }

InitConversion ==
  /\ variant \in {1, 2}
  /\ fnIn \in [ userContextId : ConversionIds, cookieStoreId : ConversionCookieStoreIds ]
  /\ fnOut = NoRecord
  /\ identities = {}
  /\ tabs = << >>
  /\ storage = << >>
  /\ exemptedTabs = << >>
  /\ canceledRequests = << >>
  /\ ledgerTimers = << >>
  /\ lastCreatedTab = NoTab
  /\ lastCreatedTimers = 0
  /\ unhideQueue = << >>
  /\ nav = << >>
  /\ procs = << >>
  /\ createCalls = << >>
  /\ removeCalls = {}
  /\ response = Response(FALSE, "none")
  /\ navCount = 0
  /\ moveCalls = {}
  /\ nextTabId = 1
  /\ nextWindowId = 2
  /\ nextPid = 1
  /\ opCount = 0
  /\ done = {}
  /\ contextMenu = ContextMenuItems
  /\ externalExtensionAllowed = {}
  /\ management = << >>

\* the id is made a cookie store id and that one an id again; the cookie
\* store id is made an id and, when there is one, that one a cookie store id
ApplyConversions ==
  /\ fnOut = NoRecord
  /\ LET cookieStoreId == getCookieStoreId(fnIn.userContextId)
         userContextId == getUserContextIdFromCookieStoreId(fnIn.cookieStoreId)
     IN  fnOut' = [ cookieStoreId |-> cookieStoreId,
                    idAgain |-> getUserContextIdFromCookieStoreId(cookieStoreId),
                    userContextId |-> userContextId,
                    cookieStoreIdAgain |-> IF userContextId = Null THEN Null
                                           ELSE getCookieStoreId(userContextId) ]
  /\ UNCHANGED << variant, browserVars, navVars, unhideQueue, procs, createCalls,
                  hideVars, done, fnIn,
                  externalVars, contextMenu >>

NextConversion == ApplyConversions

SpecConversion == InitConversion /\ [][NextConversion]_vars

\* the string begins with 'firefox-container-'
CarriesPrefix(cookieStoreId) ==
  /\ cookieStoreId # Null
  /\ Len(cookieStoreId) >= Len(ContainerPrefix)
  /\ SubSeq(cookieStoreId, 1, Len(ContainerPrefix)) = ContainerPrefix

\* C16: a container id made a cookie store id and made a container id again
\* is the id it was; the cookie store id of an id is the prefix
\* firefox-container- and the id; a cookie store id with the prefix made a
\* container id and a cookie store id again is the one it was; a cookie
\* store id without the prefix gives no container id.
C16_ConversionRoundTrip ==
  fnOut # NoRecord =>
    /\ fnOut.cookieStoreId = ContainerPrefix \o fnIn.userContextId
    /\ fnOut.idAgain = fnIn.userContextId
    /\ CarriesPrefix(fnIn.cookieStoreId) =>
         /\ fnOut.userContextId # Null
         /\ fnOut.cookieStoreIdAgain = fnIn.cookieStoreId
    /\ ~ CarriesPrefix(fnIn.cookieStoreId) => fnOut.userContextId = Null

\* both ways have been gone, from the id 10 and from the cookie store id of
\* the container 3
C16_Witness ==
  /\ fnOut # NoRecord
  /\ fnIn.userContextId = <<"1","0">>
  /\ fnOut.idAgain = <<"1","0">>
  /\ fnIn.cookieStoreId = Container3
  /\ fnOut.userContextId = <<"3">>
  /\ fnOut.cookieStoreIdAgain = Container3

---------------------------------------------------------------------------
(* hideTabs, moveTabsToWindow and getTabs with and without their           *)
(* arguments.                                                              *)

\* the getTabs message; checkArgs may throw
GetTabsMessage(cookieStoreId, windowId) ==
  /\ opCount < MaxOps
  /\ opCount' = opCount + 1
  /\ procs' = IF checkArgsThrows(variant, cookieStoreId, windowId) THEN procs
              ELSE Append(procs, [ kind |-> "getTabs", pc |-> "query",
                                   cookieStoreId |-> cookieStoreId,
                                   windowId |-> windowId, list |-> << >> ])
  /\ UNCHANGED << variant, browserVars, navVars, unhideQueue, createCalls, moveCalls,
                  nextTabId, nextWindowId, nextPid, done, fnVars, externalVars, contextMenu >>

\* getTabs: browser.tabs.query({cookieStoreId, windowId}) settles; the
\* container state is read
GetTabsQuery(i) ==
  /\ i \in DOMAIN procs
  /\ procs[i].kind = "getTabs" /\ procs[i].pc = "query"
  /\ procs' = [procs EXCEPT ![i] = [@ EXCEPT !.pc = "stateGet",
                 !.list = TabsOfIn(tabs, procs[i].cookieStoreId, procs[i].windowId)]]
  /\ UNCHANGED << variant, browserVars, navVars, unhideQueue, createCalls, hideVars,
                  done, fnVars, externalVars, contextMenu >>

\* the values of m.cookieStoreId and m.windowId: given or not
ArgsCookieStoreIds == { Null, Container3 }
ArgsWindowIds == { NoWindow, 1 }

InitArgs ==
  /\ variant \in {1, 2}
  /\ identities = { <<"3">> }
  /\ tabs = HideTabs
  /\ storage \in HideStorages
  \* the message that is sent, and the state it meets
  /\ fnIn \in [ method : { "hideTabs", "moveTabsToWindow", "getTabs" },
                cookieStoreId : ArgsCookieStoreIds, windowId : ArgsWindowIds,
                tabs : { tabs }, storage : { storage } ]
  /\ fnOut = << >>
  /\ exemptedTabs = << >>
  /\ canceledRequests = << >>
  /\ ledgerTimers = << >>
  /\ lastCreatedTab = NoTab
  /\ lastCreatedTimers = 0
  /\ unhideQueue = << >>
  /\ nav = << >>
  /\ procs = << >>
  /\ createCalls = << >>
  /\ removeCalls = {}
  /\ response = Response(FALSE, "none")
  /\ navCount = 0
  /\ moveCalls = {}
  /\ nextTabId = FirstNewTabId
  /\ nextWindowId = 3
  /\ nextPid = 1
  /\ opCount = 0
  /\ done = {}
  /\ contextMenu = ContextMenuItems
  /\ externalExtensionAllowed = {}
  /\ management = << >>

NextArgs ==
  \/ opCount = 0 /\ fnIn.method = "hideTabs"
       /\ HideTabsMessage(fnIn.cookieStoreId, fnIn.windowId)
  \/ opCount = 0 /\ fnIn.method = "moveTabsToWindow"
       /\ MoveTabsToWindowMessage(fnIn.cookieStoreId, fnIn.windowId)
  \/ opCount = 0 /\ fnIn.method = "getTabs"
       /\ GetTabsMessage(fnIn.cookieStoreId, fnIn.windowId)
  \/ \E i \in DOMAIN procs : GetTabsQuery(i)
  \/ \E i \in DOMAIN procs : IdentityStateGet(i)
  \/ \E i \in DOMAIN procs : IdentityStateDefault(i)
  \/ \E i \in DOMAIN procs : HideStoreQuery(i)
  \/ \E i \in DOMAIN procs : HideStoreSet(i)
  \/ \E i \in DOMAIN procs : HideCloseQuery(i)
  \/ \E i \in DOMAIN procs : HideCloseRemove(i)
  \/ \E i \in DOMAIN procs : MoveQuery(i)
  \/ \E i \in DOMAIN procs : MoveWindow(i)
  \/ \E i \in DOMAIN procs : MoveWindowCreated(i)
  \/ \E i \in DOMAIN procs : MoveUpdate(i)
  \/ \E i \in DOMAIN procs : MoveQuery2(i)
  \/ \E i \in DOMAIN procs : MoveSet(i)
  \/ \E i \in DOMAIN procs : ShowSet(i)
  \/ BrowserCreatesTab
  \/ \E call \in moveCalls : BrowserMovesTabs(call)
  \/ \E tabId \in removeCalls : BrowserRemovesTab(tabId)
  \/ LastCreatedTimerFires

SpecArgs == InitArgs /\ [][NextArgs]_vars

\* the message has no cookieStoreId or no windowId
ArgumentMissing == fnIn.cookieStoreId = Null \/ fnIn.windowId = NoWindow

\* C17: hideTabs, moveTabsToWindow and getTabs without cookieStoreId or
\* without windowId end at the check of their arguments: no invocation goes
\* on to a query, no tab is closed, moved or created, no window is created
\* and the store is not written.
C17_MissingArgumentFails ==
  ArgumentMissing =>
    /\ procs = << >>
    /\ tabs = fnIn.tabs
    /\ storage = fnIn.storage
    /\ createCalls = << >> /\ removeCalls = {} /\ moveCalls = {}
    /\ nextWindowId = 3

\* the same for variant 1 alone
C17_MissingArgumentFailsVariant1 ==
  variant = 1 => C17_MissingArgumentFails

\* the same for the store and the tabs alone: what is left when everything
\* the call started has run
C17_MissingArgumentNoChange ==
  (ArgumentMissing /\ opCount = 1 /\ Quiescent) =>
    tabs = fnIn.tabs /\ storage = fnIn.storage

---------------------------------------------------------------------------
(* External messages: runtime.onMessageExternal, management.onInstalled    *)
(* and management.onUninstalled.                                           *)

ContextualIdentitiesPermission == "contextualIdentities"

\* the extensions that send messages
ExtensionIds == { "a@example", "b@example" }

\* permission sets an extension declares
PermissionSets == { { "tabs" }, { "tabs", ContextualIdentitiesPermission } }

\* what is installed under an id: version counts its installs and updates
ExtensionInfo(installed, permissions, version) ==
  [ installed |-> installed, permissions |-> permissions, version |-> version ]

\* the messages of a sender
ExternalMessages ==
  { [ method |-> "getAssignment", url |-> UrlExample ],
    [ method |-> "getAssignment", url |-> UrlA ],
    [ method |-> "getAssignment", url |-> Null ],
    [ method |-> "getState", url |-> Null ] }

\* bound: external messages and management events delivered
MaxExternalOps == 4

\* a response of the listener to a sender: an error or the value it
\* resolves to; cached: the sender was in externalExtensionAllowed when the
\* message came; checked: browser.management.get was asked; permitted: the
\* sender is installed with the permission when the listener answers
ExternalResponse(sender, error, data, cached, checked) ==
  [ sender |-> sender, error |-> error, data |-> data, cached |-> cached,
    checked |-> checked,
    permitted |-> /\ management[sender].installed
                  /\ ContextualIdentitiesPermission \in management[sender].permissions ]

\* a slip: every sender passes
permissionError_None(extensionInfo) == "none"

\* the listener's check of what browser.management.get resolved to (it
\* rejects for an id with no extension): the error thrown, or none
permissionError(extensionInfo) ==
  IF ~ extensionInfo.installed THEN "management.get rejected"
  ELSE IF ContextualIdentitiesPermission \notin extensionInfo.permissions
  THEN "Missing contextualIdentities permission"
  ELSE "none"

\* the switch of the listener: the response to the message
externalSwitch(sender, message, cached, checked) ==
  IF message.method = "getAssignment"
  THEN IF message.url = Null
       THEN ExternalResponse(sender, "Missing message.url", NoRecord, cached, checked)
       ELSE ExternalResponse(sender, "none", storageAreaGet(message.url), cached, checked)
  ELSE ExternalResponse(sender, "Unknown message.method", NoRecord, cached, checked)

\* runtime.onMessageExternal: a sender in externalExtensionAllowed is
\* answered; for another browser.management.get is awaited
ExternalMessage(sender, message) ==
  /\ opCount < MaxExternalOps
  /\ management[sender].installed
  /\ opCount' = opCount + 1
  /\ IF sender \in externalExtensionAllowed
     THEN /\ fnOut' = Append(fnOut, externalSwitch(sender, message, TRUE, FALSE))
          /\ procs' = procs
     ELSE /\ procs' = Append(procs, [ kind |-> "onMessageExternal",
                                      pc |-> "managementGet", sender |-> sender,
                                      message |-> message ])
          /\ fnOut' = fnOut
  /\ UNCHANGED << variant, browserVars, navVars, unhideQueue, createCalls, moveCalls,
                  nextTabId, nextWindowId, nextPid, done, fnIn, externalVars, contextMenu >>

\* browser.management.get(sender.id) settles. The browser delivers results
\* and events in the order it produced them: the extensionInfo is what is
\* installed when the listener goes on
ManagementGetSettles(i) ==
  /\ i \in DOMAIN procs
  /\ procs[i].kind = "onMessageExternal" /\ procs[i].pc = "managementGet"
  /\ LET sender == procs[i].sender
         error == permissionError(management[sender])
     IN  IF error # "none"
         THEN /\ fnOut' = Append(fnOut,
                            ExternalResponse(sender, error, NoRecord, FALSE, TRUE))
              /\ externalExtensionAllowed' = externalExtensionAllowed
         ELSE /\ externalExtensionAllowed' = externalExtensionAllowed \cup { sender }
              /\ fnOut' = Append(fnOut,
                            externalSwitch(sender, procs[i].message, FALSE, TRUE))
  /\ procs' = RemoveAt(procs, i)
  /\ UNCHANGED << variant, browserVars, navVars, unhideQueue, createCalls, hideVars,
                  done, fnIn, management, contextMenu >>

\* a slip: the entry of the extension is kept
onInstalled_Keep(id) == externalExtensionAllowed

\* the management.onInstalled listener: externalExtensionAllowed afterwards
onInstalled(id) == externalExtensionAllowed \ { id }

\* the management.onUninstalled listener: externalExtensionAllowed afterwards
onUninstalled(id) == externalExtensionAllowed \ { id }

\* an extension is installed or updated, with the permissions it declares
\* now, and management.onInstalled fires
ExtensionInstalled(id, permissions) ==
  /\ opCount < MaxExternalOps
  /\ opCount' = opCount + 1
  /\ management' = [ management EXCEPT ![id] =
                       ExtensionInfo(TRUE, permissions, @.version + 1) ]
  /\ externalExtensionAllowed' = onInstalled(id)
  /\ UNCHANGED << variant, browserVars, navVars, unhideQueue, procs, createCalls,
                  moveCalls, nextTabId, nextWindowId, nextPid, done, fnVars, contextMenu >>

\* an extension is uninstalled and management.onUninstalled fires
ExtensionUninstalled(id) ==
  /\ opCount < MaxExternalOps
  /\ management[id].installed
  /\ opCount' = opCount + 1
  /\ management' = [ management EXCEPT ![id] = ExtensionInfo(FALSE, {}, @.version) ]
  /\ externalExtensionAllowed' = onUninstalled(id)
  /\ UNCHANGED << variant, browserVars, navVars, unhideQueue, procs, createCalls,
                  moveCalls, nextTabId, nextWindowId, nextPid, done, fnVars, contextMenu >>

InitExternal ==
  /\ variant \in {1, 2}
  /\ identities = { <<"3">> }
  /\ tabs = << >>
  /\ storage = getSiteStoreKey(UrlExample) :> Assignment(JsString(<<"3">>), FALSE)
  /\ management \in [ ExtensionIds -> { ExtensionInfo(TRUE, permissions, 1) :
                                          permissions \in PermissionSets } ]
  /\ externalExtensionAllowed = {}
  /\ fnIn = << >>
  \* the responses of the listener, in order
  /\ fnOut = << >>
  /\ exemptedTabs = << >>
  /\ canceledRequests = << >>
  /\ ledgerTimers = << >>
  /\ lastCreatedTab = NoTab
  /\ lastCreatedTimers = 0
  /\ unhideQueue = << >>
  /\ nav = << >>
  /\ procs = << >>
  /\ createCalls = << >>
  /\ removeCalls = {}
  /\ response = Response(FALSE, "none")
  /\ navCount = 0
  /\ moveCalls = {}
  /\ nextTabId = 1
  /\ nextWindowId = 2
  /\ nextPid = 1
  /\ opCount = 0
  /\ done = {}
  /\ contextMenu = ContextMenuItems

NextExternal ==
  \/ \E sender \in ExtensionIds, message \in ExternalMessages :
       ExternalMessage(sender, message)
  \/ \E i \in DOMAIN procs : ManagementGetSettles(i)
  \/ \E id \in ExtensionIds, permissions \in PermissionSets :
       ExtensionInstalled(id, permissions)
  \/ \E id \in ExtensionIds : ExtensionUninstalled(id)

SpecExternal == InitExternal /\ [][NextExternal]_vars

\* C18: a sender that has not the contextualIdentities permission and was
\* not in the cache when its message came is answered with an error and
\* no assignment; a value is returned only to a sender that is in the cache
\* or has just passed the check of its permissions.
C18_ExternalPermission ==
  \A k \in DOMAIN fnOut :
    /\ (~ fnOut[k].permitted /\ ~ fnOut[k].cached) =>
         (fnOut[k].error # "none" /\ fnOut[k].data = NoRecord)
    /\ fnOut[k].error = "none" =>
         (fnOut[k].cached \/ (fnOut[k].checked /\ fnOut[k].permitted))

\* a sender without the permission got an error and a sender with it the
\* assignment of example.com
C18_Witness ==
  \E j, k \in DOMAIN fnOut :
    /\ ~ fnOut[j].permitted /\ fnOut[j].checked
    /\ fnOut[j].error = "Missing contextualIdentities permission"
    /\ fnOut[k].permitted /\ fnOut[k].checked
    /\ fnOut[k].data = Assignment(JsString(<<"3">>), FALSE)

\* C19: every install, update or uninstall of an extension takes its id out
\* of the cache, the events of other extensions leave an entry where it is,
\* a sender in the cache has the permission, and a sender that is not in the
\* cache is checked again: one that lost the permission gets an error.
C19_CacheInvalidated ==
  /\ [](\A id \in externalExtensionAllowed :
          /\ management[id].installed
          /\ ContextualIdentitiesPermission \in management[id].permissions)
  /\ [](\A k \in DOMAIN fnOut :
          /\ fnOut[k].checked = ~ fnOut[k].cached
          /\ ~ fnOut[k].permitted => fnOut[k].error # "none")
  /\ [][\A id \in ExtensionIds :
          /\ management'[id] # management[id] => id \notin externalExtensionAllowed'
          /\ (management'[id] = management[id] /\ id \in externalExtensionAllowed)
               => id \in externalExtensionAllowed']_vars

\* a sender was answered from a check, then from the cache, was updated to
\* a version without the permission and was then checked again and refused
C19_Witness ==
  \E j, k, l \in DOMAIN fnOut :
    /\ j < k /\ k < l
    /\ fnOut[j].sender = fnOut[k].sender /\ fnOut[k].sender = fnOut[l].sender
    /\ fnOut[j].checked /\ fnOut[j].error = "none"
    /\ fnOut[k].cached /\ fnOut[k].error = "none"
    /\ fnOut[l].checked /\ fnOut[l].error = "Missing contextualIdentities permission"
    /\ management[fnOut[l].sender].version = 2

---------------------------------------------------------------------------
(* openNewTab and the urls it is given.                                    *)

AboutConfigUrl == AboutProtocol \o <<"c","o","n","f","i","g">>

\* options.url: urls of the schemes that are thrown away, the new tab
\* pages, urls of other schemes, and none
OpenUrls ==
  NEW_TAB_PAGES \cup
  { Null, AboutConfigUrl, ChromeUrl, ConfirmPageUrl, UrlA, UrlB, UrlExample,
    UrlExample80 }

InitOpen ==
  /\ variant \in {1, 2}
  /\ identities = { <<"3">> }
  /\ tabs = << >>
  /\ storage = << >>
  \* the options of the calls of openNewTab
  /\ fnIn \in [ url : OpenUrls, pinned : BOOLEAN, userContextId : { Null, <<"3">> } ]
  /\ fnOut = << >>
  /\ exemptedTabs = << >>
  /\ canceledRequests = << >>
  /\ ledgerTimers = << >>
  /\ lastCreatedTab = NoTab
  /\ lastCreatedTimers = 0
  /\ unhideQueue = << >>
  /\ nav = << >>
  /\ procs = << >>
  /\ createCalls = << >>
  /\ removeCalls = {}
  /\ response = Response(FALSE, "none")
  /\ navCount = 0
  /\ moveCalls = {}
  /\ nextTabId = 1
  /\ nextWindowId = 2
  /\ nextPid = 1
  /\ opCount = 0
  /\ done = {}
  /\ contextMenu = ContextMenuItems
  /\ externalExtensionAllowed = {}
  /\ management = << >>

\* openNewTab({userContextId, url, nofocus: false, pinned}) is called
OpenNewTabCall ==
  /\ opCount < MaxOps
  /\ opCount' = opCount + 1
  /\ createCalls' = createCalls \o openNewTab(variant, fnIn.userContextId, fnIn, NoPid)
  /\ UNCHANGED << variant, browserVars, navVars, unhideQueue, procs, moveCalls,
                  nextTabId, nextWindowId, nextPid, done, fnVars, externalVars, contextMenu >>

\* the calls of openNewTab, the browser creating the tabs, and what
\* tabs.onCreated starts for them
NextOpen ==
  \/ OpenNewTabCall
  \/ BrowserCreatesTab
  \/ \E i \in DOMAIN procs : IdentityStateGet(i)
  \/ \E i \in DOMAIN procs : IdentityStateDefault(i)
  \/ \E i \in DOMAIN procs : ShowSet(i)
  \/ LastCreatedTimerFires

SpecOpen == InitOpen /\ [][NextOpen]_vars

DiscardedProtocols == { AboutProtocol, ChromeProtocol, MozExtensionProtocol }

\* C20: openNewTab asks for no tab with a url of the scheme about:, chrome:
\* or moz-extension:, and no tab with such a url comes to exist; called with
\* such a url that is no new tab page it asks for no tab at all and nothing
\* else changes.
C20_NoDiscardedSchemeTab ==
  /\ \A k \in DOMAIN createCalls :
       /\ createCalls[k].url # Null
       /\ UrlProtocol(createCalls[k].url) \notin DiscardedProtocols
  /\ \A k \in DOMAIN tabs : UrlProtocol(tabs[k].url) \notin DiscardedProtocols
  /\ (/\ fnIn.url # Null
      /\ UrlProtocol(fnIn.url) \in DiscardedProtocols
      /\ fnIn.url \notin NEW_TAB_PAGES)
       => /\ createCalls = << >> /\ tabs = << >> /\ procs = << >>
          /\ storage = << >> /\ unhideQueue = << >> /\ nextTabId = 1

\* openNewTab has been called with about:config, and nothing came of it
C20_Witness ==
  /\ opCount = MaxOps
  /\ fnIn.url = AboutConfigUrl
  /\ tabs = << >>

\* openNewTab has been called with a url of another scheme and the tab exists
C20_WitnessOpened ==
  /\ opCount = MaxOps
  /\ fnIn.url = UrlA
  /\ Len(tabs) = MaxOps

\* C21: openNewTab called with a new tab page as url asks for exactly one tab,
\* with no url, in the container it was called for: after every call there
\* is one more tab asked for or created, none with a url of its own.
C21_PlaceholderOpensBlankTab ==
  fnIn.url \in NEW_TAB_PAGES =>
    /\ Len(createCalls) + Len(tabs) = opCount
    /\ \A k \in DOMAIN createCalls :
         /\ createCalls[k].url = Null
         /\ createCalls[k].cookieStoreId
              = openNewTabCookieStoreId(variant, fnIn.userContextId)

\* openNewTab called with a new tab page asks for no tab at all
C21_PlaceholderOpensNothing ==
  fnIn.url \in NEW_TAB_PAGES => (createCalls = << >> /\ tabs = << >>)

\* C22: a completed or error event of a tab deletes the tab's ledger entry
\* and leaves the entries of the other tabs, the tabs and the calls in
\* flight as they are; and a reroute-candidate navigation whose url and
\* requestId are not recorded in an entry of its tab is rerouted afresh, so
\* also the one whose url or requestId was in the entry deleted.
C22_EventDeletesEntry ==
  /\ [][\A tabId \in NavTabIds :
          CompletedOrError(tabId)
            => /\ tabId \notin DOMAIN canceledRequests'
               /\ \A other \in (DOMAIN canceledRequests) \ {tabId} :
                    /\ other \in DOMAIN canceledRequests'
                    /\ canceledRequests'[other] = canceledRequests[other]
               /\ UNCHANGED << tabs, storage, createCalls, removeCalls >>]_vars
  /\ [][\A i \in 1 .. MaxNav :
          (NavDecides(i) /\ CandidateBranch(i) /\ ~ AlreadyRecorded(i))
            => /\ response' = Response(TRUE, "rerouted")
               /\ Len(createCalls') = Len(createCalls) + 1
               /\ RerouteUrl(createCalls'[Len(createCalls')]) = nav[i].url
               /\ nav[i].tabId \in DOMAIN canceledRequests'
               /\ nav[i].url \in canceledRequests'[nav[i].tabId].urls]_vars

\* C22 witness: a tab was rerouted twice to the same url and the timers of
\* both reroutes are still to fire: the entry of the first reroute was
\* deleted by a completed or error event
C22_Witness ==
  /\ Len(createCalls) = 2
  /\ RerouteUrl(createCalls[1]) = RerouteUrl(createCalls[2])
  /\ \E tabId \in NavTabIds :
       /\ ledgerTimers[tabId] = 2
       /\ tabId \in DOMAIN canceledRequests

\* C23: a navigation that is rerouted afresh closes its tab exactly when
\* the tab's url is a new tab page or the tab is the one in lastCreatedTab;
\* the tab it asks for has the tab's opener as opener when the tab is
\* closed and the tab itself when it is kept.
C23_RemoveTabAndOpener ==
  [][\A i \in 1 .. MaxNav :
       (NavDecides(i) /\ Len(createCalls') = Len(createCalls) + 1)
         => LET tab == DecidedTab(i)
                closes == \/ tab.url \in NEW_TAB_PAGES
                          \/ (lastCreatedTab # NoTab /\ lastCreatedTab = tab.id)
                call == createCalls'[Len(createCalls')]
            IN  /\ closes => (tab.id \in removeCalls' /\ call.openerTabId = tab.openerTabId)
                /\ ~ closes => (removeCalls' = removeCalls /\ call.openerTabId = tab.id)]_vars

\* C23 witness: tab 1, at a new tab page, was rerouted and is closed or to
\* be closed, the new tab has tab 1's opener, none; then tab 2 was rerouted
\* when it was no longer in lastCreatedTab and is kept, the new tab has tab
\* 2 as opener
C23_Witness ==
  /\ Len(createCalls) = 2
  /\ createCalls[1].openerTabId = NoTab
  /\ 1 \in removeCalls \/ 1 \notin OpenTabIds
  /\ createCalls[2].openerTabId = 2
  /\ 2 \in OpenTabIds \ removeCalls

---------------------------------------------------------------------------
(* C24: events of sub-frames and events without a tab.                     *)

\* C24: a navigation event with a frame id other than 0, or with tab id -1,
\* is allowed (not canceled) and changes nothing: the ledger and its timers,
\* the tabs, the pending creations and removals, the store, the events
\* being handled and the context menu are as before.
C24_DroppedEventChangesNothing ==
  [][ \A tabId \in {-1} \cup OpenTabIds, url \in NavUrls,
         requestId \in RequestIds, frameId \in {0, 1} :
        (NavEvent(tabId, url, requestId, frameId) /\ (frameId # 0 \/ tabId = -1))
          => /\ ~ response'.cancel
             /\ response'.at = "dropped"
             /\ UNCHANGED << canceledRequests, ledgerTimers, tabs, storage,
                             identities, exemptedTabs, createCalls, removeCalls,
                             nav, procs, contextMenu, lastCreatedTab >> ]_vars

\* C24: an event was dropped while another one is being handled
C24_Witness ==
  /\ response = Response(FALSE, "dropped")
  /\ navCount = 2
  /\ Len(nav) = 1
  /\ contextMenu = { }

---------------------------------------------------------------------------
(* C25: the tab a reroute asks for.                                        *)

\* the tab and its index as browser.tabs.get resolved them for handler i
DecidedIndex(i) ==
  IF nav[i].pc = "container" THEN nav[i].index ELSE TabObject(nav[i].tabId).index

\* the cookie store the browser gives the tab of a creation call
CallCookieStoreId(call) ==
  IF call.cookieStoreId = Null THEN FirefoxDefault ELSE call.cookieStoreId

\* C25: a reroute that is not an echo asks for exactly one new tab, at the
\* index of the original tab plus one: with neverAsk set the tab loads the
\* requested url in the cookie store of the assigned container; otherwise it
\* loads the confirm page, which carries the requested url and the target
\* cookieStoreId, in the container of the original tab.
C25_RerouteCreatesOneTab ==
  [][\A i \in 1 .. MaxNav :
       (NavDecides(i) /\ response'.at = "rerouted")
         => LET tab == DecidedTab(i)
                siteSettings == DecidedSettings(i)
                target == getCookieStoreId(String(siteSettings.userContextId))
                call == createCalls'[Len(createCalls')]
            IN  /\ Len(createCalls') = Len(createCalls) + 1
                /\ SubSeq(createCalls', 1, Len(createCalls)) = createCalls
                /\ tabs' = tabs
                /\ call.index = DecidedIndex(i) + 1
                /\ siteSettings.neverAsk
                     => /\ call.confirm = NoRecord
                        /\ call.url = nav[i].url
                        /\ CallCookieStoreId(call) = target
                /\ ~ siteSettings.neverAsk
                     => /\ call.confirm # NoRecord
                        /\ call.confirm.url = nav[i].url
                        /\ call.confirm.cookieStoreId = target
                        /\ CallCookieStoreId(call) = tab.cookieStoreId]_vars

\* C25 witness: the reroute of tab 1, the first tab of its window and in
\* container 0, has asked for the confirm page at index 1 in container 0
C25_Witness ==
  \E k \in DOMAIN createCalls :
    /\ createCalls[k].confirm # NoRecord
    /\ createCalls[k].confirm.url \in NavUrls
    /\ createCalls[k].confirm.cookieStoreId = Container3
    /\ createCalls[k].cookieStoreId = Container0
    /\ createCalls[k].index = 1
    /\ response = Response(TRUE, "rerouted")

\* C25 witness: a reroute with neverAsk set has asked for a tab that loads
\* the requested url in container 3
C25_WitnessDirect ==
  \E k \in DOMAIN createCalls :
    /\ createCalls[k].confirm = NoRecord
    /\ createCalls[k].url \in NavUrls
    /\ createCalls[k].cookieStoreId = Container3
    /\ response = Response(TRUE, "rerouted")

---------------------------------------------------------------------------
(* C26: the tabs hideTabs closes.                                          *)

\* C26: the tabs the browser.tabs.remove of hideTabs closes are tabs that
\* storeHidden's query resolved to, so that no tab is closed without having
\* been considered for a snapshot.
C26_ClosesWhatStoreHiddenRead ==
  [][\A i \in DOMAIN procs :
       HideCloseRemove(i) => (OpenTabIds \ OpenTabIds') \subseteq procs[i].tabsByContainer]_vars

\* C26: hideTabs closes no tab before the identityStateSet of storeHidden was
\* carried out, and a tab it closes that storeHidden did not read was
\* created after storeHidden's query.
C26_UnreadClosedTabsAreNew ==
  [][\A i \in DOMAIN procs :
       /\ (procs[i].kind = "hideTabs"
             /\ procs[i].pc \in {"stateGet", "storeQuery", "storeSet"}
             /\ (HideStoreQuery(i) \/ HideStoreSet(i)))
            => tabs' = tabs
       /\ HideCloseRemove(i)
            => \A id \in (OpenTabIds \ OpenTabIds') \ procs[i].tabsByContainer :
                 id >= FirstNewTabId]_vars

---------------------------------------------------------------------------
(* C27: hideTabs for two windows of one container.                         *)

\* container 3 has a tab in window 1 and a tab in window 2
HideWindowsTabs ==
  << Tab(1, 1, Container3, UrlA, FALSE, TRUE, FALSE, NoTab),
     Tab(2, 2, Container3, UrlB, FALSE, TRUE, FALSE, NoTab),
     Tab(3, 1, FirefoxDefault, UrlB, FALSE, FALSE, FALSE, NoTab),
     Tab(4, 2, FirefoxDefault, UrlA, FALSE, FALSE, FALSE, NoTab) >>

InitHideWindows ==
  /\ variant \in {1, 2}
  /\ identities = { <<"3">> }
  /\ tabs = HideWindowsTabs
  /\ storage \in HideStorages
  /\ exemptedTabs = << >>
  /\ canceledRequests = << >>
  /\ ledgerTimers = << >>
  /\ lastCreatedTab = NoTab
  /\ lastCreatedTimers = 0
  /\ unhideQueue = << >>
  /\ nav = << >>
  /\ procs = << >>
  /\ createCalls = << >>
  /\ removeCalls = {}
  /\ response = Response(FALSE, "none")
  /\ navCount = 0
  /\ moveCalls = {}
  /\ nextTabId = 5
  /\ nextWindowId = 3
  /\ nextPid = 1
  /\ opCount = 0
  /\ done = {}
  /\ contextMenu = ContextMenuItems
  /\ externalExtensionAllowed = {}
  /\ management = << >>
  /\ fnIn = << >>
  /\ fnOut = << >>

NextHideWindows ==
  \/ \E windowId \in {1, 2} : HideTabsMessage(Container3, windowId)
  \/ \E i \in DOMAIN procs : IdentityStateGet(i)
  \/ \E i \in DOMAIN procs : IdentityStateDefault(i)
  \/ \E i \in DOMAIN procs : HideStoreQuery(i)
  \/ \E i \in DOMAIN procs : HideStoreSet(i)
  \/ \E i \in DOMAIN procs : HideCloseQuery(i)
  \/ \E i \in DOMAIN procs : HideCloseRemove(i)

SpecHideWindows == InitHideWindows /\ [][NextHideWindows]_vars

\* the ids of the snapshots persisted for container 3
PersistedHiddenIds ==
  { PersistedHiddenTabs(Container3)[k].id : k \in DOMAIN PersistedHiddenTabs(Container3) }

\* C27: when the hideTabs calls for window 1 and for window 2 of container 3
\* have both finished, the snapshots of the tabs of both windows are in the
\* persisted hiddenTabs list.
C27_BothWindowsPersisted ==
  (procs = << >> /\ 1 \notin OpenTabIds /\ 2 \notin OpenTabIds)
    => {1, 2} \subseteq PersistedHiddenIds

\* C27: storeHidden appends to the list it read: the list it hands to
\* identityStateSet is the list identityStateGet resolved to, followed by
\* the snapshots of the tabs of its window; and no snapshot persisted at the
\* start is lost when a single call is made.
C27_AppendsToStateRead ==
  [][\A i \in DOMAIN procs :
       HideStoreQuery(i)
         => LET old == procs[i].containerState.hiddenTabs
                new == procs'[i].containerState.hiddenTabs
            IN  /\ Len(new) >= Len(old)
                /\ SubSeq(new, 1, Len(old)) = old
                /\ \A k \in (Len(old) + 1) .. Len(new) :
                     /\ new[k].windowId = procs[i].windowId
                     /\ new[k].id \in OpenTabIds]_vars

---------------------------------------------------------------------------
(* C28: the new window after moveTabsToWindow.                             *)

\* moveTabsToWindow has returned and the browser has carried out the
\* tabs.remove and tabs.move calls it issued
MoveCompleted ==
  /\ opCount = 1
  /\ \A i \in DOMAIN procs : procs[i].kind # "moveTabsToWindow"
  /\ removeCalls = {}
  /\ moveCalls = {}

\* the window browser.windows.create made for the call
MoveNewWindowId == nextWindowId - 1

---------------------------------------------------------------------------
(* C29: moveTabsToWindow with nothing to move.  Container 3 has no hidden  *)
(* tab, no tab in window 1 and one tab in window 2; moveTabsToWindow is    *)
(* asked for window 1 and for window 2.                                    *)

MoveNothingTabs ==
  << Tab(1, 2, Container3, UrlA, FALSE, TRUE, FALSE, NoTab),
     Tab(5, 1, FirefoxDefault, UrlB, FALSE, TRUE, FALSE, NoTab) >>

MoveNothingStorages ==
  { << >>, getContainerStoreKey(Container3) :> ContainerState(<< >>) }

InitMoveNothing ==
  /\ variant \in {1, 2}
  /\ identities = { <<"3">> }
  /\ tabs = MoveNothingTabs
  /\ storage \in MoveNothingStorages
  /\ fnIn = << >>
  /\ fnOut = << >>
  /\ exemptedTabs = << >>
  /\ canceledRequests = << >>
  /\ ledgerTimers = << >>
  /\ lastCreatedTab = NoTab
  /\ lastCreatedTimers = 0
  /\ unhideQueue = << >>
  /\ nav = << >>
  /\ procs = << >>
  /\ createCalls = << >>
  /\ removeCalls = {}
  /\ response = Response(FALSE, "none")
  /\ navCount = 0
  /\ moveCalls = {}
  /\ nextTabId = FirstNewTabId
  /\ nextWindowId = 3
  /\ nextPid = 1
  /\ opCount = 0
  /\ done = {}
  /\ contextMenu = ContextMenuItems
  /\ externalExtensionAllowed = {}
  /\ management = << >>

NextMoveNothing ==
  \/ \E windowId \in {1, 2} : MoveTabsToWindowMessage(Container3, windowId)
  \/ \E i \in DOMAIN procs : IdentityStateGet(i)
  \/ \E i \in DOMAIN procs : IdentityStateDefault(i)
  \/ \E i \in DOMAIN procs : ShowSet(i)
  \/ \E i \in DOMAIN procs : MoveQuery(i)
  \/ \E i \in DOMAIN procs : MoveWindow(i)
  \/ \E i \in DOMAIN procs : MoveWindowCreated(i)
  \/ \E i \in DOMAIN procs : MoveUpdate(i)
  \/ \E i \in DOMAIN procs : MoveQuery2(i)
  \/ \E i \in DOMAIN procs : MoveSet(i)
  \/ \E call \in moveCalls : BrowserMovesTabs(call)
  \/ \E tabId \in removeCalls : BrowserRemovesTab(tabId)
  \/ LastCreatedTimerFires

SpecMoveNothing == InitMoveNothing /\ [][NextMoveNothing]_vars

\* a step of invocation i of moveTabsToWindow
MoveStep(i) ==
  /\ procs[i].kind = "moveTabsToWindow"
  /\ \/ MoveQuery(i)
     \/ procs[i].pc \in {"stateGet", "stateDefault"}
          /\ (IdentityStateGet(i) \/ IdentityStateDefault(i))

\* C29: a moveTabsToWindow call whose query finds no tab of the container
\* in the window and whose container state has no hidden tab returns
\* having created no window, asked for no tab creation, move or removal,
\* and with the unhide queue as it was.
C29_NothingToDo ==
  [][\A i \in DOMAIN procs :
       ( /\ MoveStep(i)
         /\ procs[i].windowId = 1
         /\ TabsOfIn(tabs, Container3, 1) = << >>
         /\ PersistedHiddenTabs(Container3) = << >> )
         => /\ UNCHANGED << tabs, createCalls, moveCalls, removeCalls, unhideQueue,
                            nextWindowId, nextTabId >>
            /\ \A j \in DOMAIN procs' : procs'[j].pc \notin {"window", "windowCreated"}
                  \/ procs'[j].windowId # 1]_vars

\* C29 witness: one call, for window 1, has returned: no window was made
\* and tabs and queue are as at the start
C29_Witness ==
  /\ opCount = 1
  /\ procs = << >>
  /\ nextWindowId = 3
  /\ tabs = MoveNothingTabs
  /\ unhideQueue = << >>
  /\ createCalls = << >> /\ moveCalls = {} /\ removeCalls = {}

---------------------------------------------------------------------------
(* C30: the order of the tabs after sortTabs.                              *)

\* the container id of a tab, Null for a tab without one
ContainerIdOf(tab) == getUserContextIdFromCookieStoreId(tab.cookieStoreId)

\* where the tab is in a list
PlaceIn(list, tabId) == CHOOSE k \in DOMAIN list : list[k].id = tabId

\* the pinned tabs precede the unpinned ones
PinnedFirst(list) ==
  \A j, k \in DOMAIN list : (j < k /\ list[k].pinned) => list[j].pinned

\* among the tabs of the list that have a container id, the ids ascend, so
\* that the tabs of one container follow one another
GroupsAscend(list) ==
  \A j, k \in DOMAIN list :
    (j < k /\ list[j].pinned = list[k].pinned
       /\ ContainerIdOf(list[j]) # Null /\ ContainerIdOf(list[k]) # Null)
      => ~ StringLess(ContainerIdOf(list[k]), ContainerIdOf(list[j]))

\* no tab of another kind stands between two tabs of one container
GroupsContiguous(list) ==
  \A j, k, l \in DOMAIN list :
    (j < k /\ k < l /\ list[j].pinned = list[l].pinned
       /\ ContainerIdOf(list[j]) # Null
       /\ ContainerIdOf(list[j]) = ContainerIdOf(list[l]))
      => ContainerIdOf(list[k]) = ContainerIdOf(list[j])

\* the tabs of one container are in the order they had in before
GroupsStable(list, before) ==
  \A j, k \in DOMAIN list :
    (j < k /\ list[j].pinned = list[k].pinned
       /\ ContainerIdOf(list[j]) # Null
       /\ ContainerIdOf(list[j]) = ContainerIdOf(list[k]))
      => PlaceIn(before, list[j].id) < PlaceIn(before, list[k].id)

\* the same tabs, each once, each in its window
SameTabs(list, before) ==
  /\ Len(list) = Len(before)
  /\ \A k \in DOMAIN before :
       \E j \in DOMAIN list : list[j] = before[k]

\* the first sortTabs call is through
SortedOnce == Quiescent /\ Len(fnOut) = 1

\* C30: after sortTabs the pinned tabs precede the unpinned tabs, within
\* each block the tabs are grouped by container id, the groups in ascending
\* order of the id and the tabs of a group in their original order, and the
\* window holds the same tabs as before.
C30_SortedByContainer ==
  SortedOnce
    => /\ PinnedFirst(tabs)
       /\ GroupsAscend(tabs)
       /\ GroupsContiguous(tabs)
       /\ GroupsStable(tabs, fnOut[1])
       /\ SameTabs(tabs, fnOut[1])

\* C30: what holds after sortTabs in both variants: the pinned tabs precede
\* the unpinned tabs and the window holds the same tabs as before; and in
\* the tabs of one container keep their original order; in variant 1 the
\* tabs that have a container id are, among themselves, in ascending order
\* of the id; in variant 2 the tabs of one container follow one another.
C30_SortedAmongContainerTabs ==
  SortedOnce
    => /\ PinnedFirst(tabs)
       /\ SameTabs(tabs, fnOut[1])
       /\ GroupsStable(tabs, fnOut[1])
       /\ variant = 1 => GroupsAscend(tabs)
       /\ variant = 2 => GroupsContiguous(tabs)

---------------------------------------------------------------------------
(* setOrRemoveAssignment: the Site Assignment Store and its exemptions.    *)

\* a slip: the exemptions are kept
removeExempted_Keep(pageUrl) == exemptedTabs

\* exemptedTabs after removeExempted(pageUrl)
removeExempted(pageUrl) == (getSiteStoreKey(pageUrl) :> << >>) @@ exemptedTabs

\* a slip: every tab of the site is exempted
exemptedTabIds_All(list, pageUrl, userContextId) ==
  LET chosen == SelectSeq(list, LAMBDA tab :
                  getSiteStoreKey(tab.url) = getSiteStoreKey(pageUrl))
  IN  [ j \in 1 .. Len(chosen) |-> chosen[j].id ]

\* the tabs _setOrRemoveAssignment exempts: those of the site that are not
\* in the container assigned
exemptedTabIds(list, pageUrl, userContextId) ==
  LET chosen == SelectSeq(list, LAMBDA tab :
                  /\ getSiteStoreKey(tab.url) = getSiteStoreKey(pageUrl)
                  /\ getUserContextIdFromCookieStore(tab) # userContextId)
  IN  [ j \in 1 .. Len(chosen) |-> chosen[j].id ]

\* exemptedTabs after the forEach of storageAreaSet(pageUrl, data, ids)
storageAreaSetExempted(pageUrl, ids) ==
  IF ids = << >> THEN exemptedTabs
  ELSE LET siteStoreKey == getSiteStoreKey(pageUrl)
           old == IF siteStoreKey \in DOMAIN exemptedTabs
                  THEN exemptedTabs[siteStoreKey] ELSE << >>
       IN  (siteStoreKey :> old \o ids) @@ exemptedTabs

\* the mark of a removal in done
Removed == <<"r","e","m","o","v","e","d">>

\* bound of the assignment model: navigation events delivered
MaxAssignNav == 1

\* bound of the assignment model: setOrRemoveAssignment calls made
MaxAssignOps == 3

\* a storage.local call of an invocation is pending and no call made before
\* it is: the browser carries the calls out in the order they were made
StorageTurn(i) ==
  /\ procs[i].pc = "storage"
  /\ \A j \in DOMAIN procs :
       (procs[j].kind = "setOrRemoveAssignment" /\ procs[j].pc = "storage")
         => procs[i].ticket <= procs[j].ticket

\* _setOrRemoveAssignment(tabId, pageUrl, userContextId, remove) up to its
\* first await: browser.tabs.query, or the storage.local.remove of
\* storageAreaRemove, which has cleared the exemptions
SetOrRemoveAssignmentCall(tabId, pageUrl, userContextId, remove) ==
  /\ opCount < MaxAssignOps
  /\ tabId \in OpenTabIds
  /\ opCount' = opCount + 1
  /\ procs' = Append(procs, [ kind |-> "setOrRemoveAssignment",
                              pc |-> IF remove THEN "storage" ELSE "query",
                              tabId |-> tabId, pageUrl |-> pageUrl,
                              userContextId |-> userContextId, remove |-> remove,
                              ticket |-> nextPid ])
  /\ nextPid' = IF remove THEN nextPid + 1 ELSE nextPid
  /\ exemptedTabs' = IF remove THEN removeExempted(pageUrl) ELSE exemptedTabs
  \* done keeps what was asked for so far
  /\ done' = done \cup { IF remove THEN Removed ELSE userContextId }
  /\ UNCHANGED << variant, browserVars, canceledRequests, ledgerTimers, lastCreatedTab,
                  lastCreatedTimers, unhideQueue, nav, createCalls, removeCalls,
                  response, navCount, moveCalls, nextTabId, nextWindowId,
                  fnVars, externalVars, contextMenu >>

\* browser.tabs.query({}) settles: the tabs to exempt are computed and
\* storageAreaSet exempts them and calls storage.local.set
AssignQuery(i) ==
  /\ i \in DOMAIN procs
  /\ procs[i].kind = "setOrRemoveAssignment" /\ procs[i].pc = "query"
  /\ exemptedTabs' = storageAreaSetExempted(procs[i].pageUrl,
                        exemptedTabIds(tabs, procs[i].pageUrl, procs[i].userContextId))
  /\ procs' = [procs EXCEPT ![i] = [@ EXCEPT !.pc = "storage", !.ticket = nextPid]]
  /\ nextPid' = nextPid + 1
  /\ UNCHANGED << variant, browserVars, canceledRequests, ledgerTimers, lastCreatedTab,
                  lastCreatedTimers, unhideQueue, nav, createCalls, removeCalls,
                  response, navCount, moveCalls, nextTabId, nextWindowId, opCount,
                  done, fnVars, externalVars, contextMenu >>

\* the storage.local.set or storage.local.remove of the invocation is
\* carried out; browser.tabs.get is awaited
AssignStorageSettles(i) ==
  /\ i \in DOMAIN procs
  /\ procs[i].kind = "setOrRemoveAssignment"
  /\ StorageTurn(i)
  /\ LET siteStoreKey == getSiteStoreKey(procs[i].pageUrl)
     IN  storage' = IF procs[i].remove
                    THEN [ k \in (DOMAIN storage) \ {siteStoreKey} |-> storage[k] ]
                    ELSE (siteStoreKey :> Assignment(JsString(procs[i].userContextId),
                                                     FALSE)) @@ storage
  /\ procs' = [procs EXCEPT ![i] = [@ EXCEPT !.pc = "tabGet"]]
  /\ UNCHANGED << variant, identities, tabs, navVars, unhideQueue, createCalls,
                  hideVars, done, fnVars, externalVars, contextMenu >>

\* browser.tabs.get(tabId) settles and calculateContextMenu(tab) is called
AssignTabGet(i) ==
  /\ i \in DOMAIN procs
  /\ procs[i].kind = "setOrRemoveAssignment" /\ procs[i].pc = "tabGet"
  /\ contextMenu' = IF procs[i].tabId \in OpenTabIds
                    THEN calculateContextMenu(TabObject(procs[i].tabId).tab)
                    ELSE contextMenu
  /\ procs' = RemoveAt(procs, i)
  /\ UNCHANGED << variant, browserVars, navVars, unhideQueue, createCalls,
                  hideVars, done, fnVars, externalVars >>

\* the assignment model: containers 0 and 3; example.com is open in
\* container 0, in container 3 and, with its default port written out, in
\* the default context; a.com is open in container 3
AssignTabs ==
  << Tab(1, 1, Container0, UrlExample, FALSE, TRUE, FALSE, NoTab),
     Tab(2, 1, Container3, UrlExample, FALSE, FALSE, FALSE, NoTab),
     Tab(3, 1, Container3, UrlA, FALSE, FALSE, FALSE, NoTab),
     Tab(4, 1, FirefoxDefault, UrlExample80, FALSE, FALSE, FALSE, NoTab) >>

\* tab 3 is exempted for a.com, assigned to container 0
AssignStorage == getSiteStoreKey(UrlA) :> Assignment(JsString(<<"0">>), FALSE)
AssignExempted == getSiteStoreKey(UrlA) :> << 3 >>

\* example.com is assigned to container 3 from tab 2, the assignment is
\* removed from tab 2, example.com is assigned to container 0 from tab 1
AssignMessages ==
  { [ tabId |-> 2, userContextId |-> <<"3">>, remove |-> FALSE ],
    [ tabId |-> 2, userContextId |-> <<"3">>, remove |-> TRUE ],
    [ tabId |-> 1, userContextId |-> <<"0">>, remove |-> FALSE ] }

InitAssign ==
  /\ variant \in {1, 2}
  /\ identities = { <<"0">>, <<"3">> }
  /\ tabs = AssignTabs
  /\ storage = AssignStorage
  /\ exemptedTabs = AssignExempted
  /\ canceledRequests = << >>
  /\ ledgerTimers = [ t \in NavTabIds |-> 0 ]
  /\ lastCreatedTab = NoTab
  /\ lastCreatedTimers = 0
  /\ unhideQueue = << >>
  /\ nav = << >>
  /\ procs = << >>
  /\ createCalls = << >>
  /\ removeCalls = {}
  /\ response = Response(FALSE, "none")
  /\ navCount = 0
  /\ moveCalls = {}
  /\ nextTabId = 5
  /\ nextWindowId = 2
  /\ nextPid = 1
  /\ opCount = 0
  /\ done = {}
  /\ contextMenu = ContextMenuItems
  /\ externalExtensionAllowed = {}
  /\ management = << >>
  /\ fnIn = << >>
  /\ fnOut = << >>

NextAssign ==
  \/ \E m \in AssignMessages :
       SetOrRemoveAssignmentCall(m.tabId, UrlExample, m.userContextId, m.remove)
  \/ \E i \in DOMAIN procs : AssignQuery(i)
  \/ \E i \in DOMAIN procs : AssignStorageSettles(i)
  \/ \E i \in DOMAIN procs : AssignTabGet(i)
  \/ \E tabId \in {1, 2} :
       navCount < MaxAssignNav /\ NavEvent(tabId, UrlExample, "r1", 0)
  \/ \E i \in 1 .. MaxNav : NavLookup(i)
  \/ \E i \in 1 .. MaxNav : NavContainer(i)

SpecAssign == InitAssign /\ [][NextAssign]_vars

\* the tab ids exempted for a site key
ExemptedFor(siteStoreKey) ==
  IF siteStoreKey \in DOMAIN exemptedTabs THEN exemptedTabs[siteStoreKey] ELSE << >>

\* the tab ids exempted for a site key after the step
ExemptedAfter(siteStoreKey) ==
  IF siteStoreKey \in DOMAIN exemptedTabs' THEN exemptedTabs'[siteStoreKey] ELSE << >>

ExampleKey == getSiteStoreKey(UrlExample)

\* C31: the removal of an assignment leaves no tab exempted for its site
\* key and the exemptions of the other site keys as they were; when its
\* storage.local.remove is carried out the assignment is absent; and an
\* assignment made when nothing is exempted for the key exempts exactly the
\* tabs computed by that assignment.
C31_RemovalClearsExemptions ==
  [][ /\ \A m \in AssignMessages :
           (m.remove /\ SetOrRemoveAssignmentCall(m.tabId, UrlExample, m.userContextId, TRUE))
             => /\ ExemptedAfter(ExampleKey) = << >>
                /\ \A k \in (DOMAIN exemptedTabs) \ {ExampleKey} :
                     k \in DOMAIN exemptedTabs' /\ exemptedTabs'[k] = exemptedTabs[k]
                /\ (DOMAIN exemptedTabs') \ {ExampleKey} = (DOMAIN exemptedTabs) \ {ExampleKey}
      /\ \A i \in DOMAIN procs :
           (AssignStorageSettles(i) /\ procs[i].remove)
             => getSiteStoreKey(procs[i].pageUrl) \notin DOMAIN storage'
      /\ \A i \in DOMAIN procs :
           (AssignQuery(i) /\ ExemptedFor(getSiteStoreKey(procs[i].pageUrl)) = << >>)
             => ExemptedAfter(getSiteStoreKey(procs[i].pageUrl))
                  = exemptedTabIds(tabs, procs[i].pageUrl, procs[i].userContextId) ]_vars

\* C31 witness: example.com was assigned to container 3, the assignment was
\* removed and example.com was assigned to container 0: the tabs exempted
\* are those of the last assignment, and tab 3 is still exempted for a.com
C31_Witness ==
  /\ done = { <<"3">>, Removed, <<"0">> }
  /\ opCount = 3
  /\ procs = << >>
  /\ ExampleKey \in DOMAIN storage
  /\ storage[ExampleKey] = Assignment(JsString(<<"0">>), FALSE)
  /\ ExemptedFor(ExampleKey) = << 2, 4 >>
  /\ ExemptedFor(getSiteStoreKey(UrlA)) = << 3 >>


\* the ids of the open tabs of the site of pageUrl whose cookie store is not
\* the one of container userContextId
TabsOfSiteElsewhere(pageUrl, userContextId) ==
  { tabs[k].id : k \in { j \in DOMAIN tabs :
       /\ getSiteStoreKey(tabs[j].url) = getSiteStoreKey(pageUrl)
       /\ tabs[j].cookieStoreId # getCookieStoreId(userContextId) } }

\* C32: when _setOrRemoveAssignment assigns a site to container C, the tab
\* ids it adds to the exemptions of the site key are exactly those of the
\* tabs open at its tabs.query on a url of that site key in a cookie store
\* other than C's (tabs of the site in C and tabs of other sites are not
\* added, and the exemptions of other site keys stay as they are); the
\* assignment it stores has neverAsk = false; a navigation of an exempted tab
\* to the site is not cancelled and creates no tab; and only a removal takes
\* an exemption away.
C32_AssignExemptsOtherContainers ==
  [][ /\ \A i \in DOMAIN procs :
           AssignQuery(i)
             => LET siteStoreKey == getSiteStoreKey(procs[i].pageUrl)
                IN  /\ SeqToSet(ExemptedAfter(siteStoreKey))
                         = SeqToSet(ExemptedFor(siteStoreKey))
                             \cup TabsOfSiteElsewhere(procs[i].pageUrl, procs[i].userContextId)
                    /\ \A k \in DOMAIN exemptedTabs' \ {siteStoreKey} :
                         k \in DOMAIN exemptedTabs /\ exemptedTabs'[k] = exemptedTabs[k]
      /\ \A i \in DOMAIN procs :
           (AssignStorageSettles(i) /\ ~ procs[i].remove)
             => LET siteStoreKey == getSiteStoreKey(procs[i].pageUrl)
                IN  /\ siteStoreKey \in DOMAIN storage'
                    /\ storage'[siteStoreKey].userContextId = JsString(procs[i].userContextId)
                    /\ storage'[siteStoreKey].neverAsk = FALSE
      /\ \A i \in DOMAIN nav :
           (NavDecides(i) /\ isExempted(nav[i].url, DecidedTab(i).id))
             => /\ ~ response'.cancel
                /\ createCalls' = createCalls
                /\ removeCalls' = removeCalls
      /\ (~ \E m \in AssignMessages :
             m.remove /\ SetOrRemoveAssignmentCall(m.tabId, UrlExample, m.userContextId, TRUE))
           => SeqToSet(ExemptedFor(ExampleKey)) \subseteq SeqToSet(ExemptedAfter(ExampleKey))
    ]_vars

\* C32 witness: example.com was assigned to container 3, which exempted tab 1
\* (container 0) and tab 4 (default context) but not tab 2 (container 3) nor
\* tab 3 (a.com); after the assignment has finished, tab 1 navigates to
\* example.com and onBeforeRequest has found the assignment
C32_Witness ==
  /\ done = { <<"3">> }
  /\ procs = << >>
  /\ ExemptedFor(ExampleKey) = << 1, 4 >>
  /\ ExemptedFor(getSiteStoreKey(UrlA)) = << 3 >>
  /\ storage[ExampleKey] = Assignment(JsString(<<"3">>), FALSE)
  /\ Len(nav) = 1
  /\ nav[1].pc = "container"
  /\ nav[1].tabId = 1
  /\ nav[1].siteSettings = Assignment(JsString(<<"3">>), FALSE)

\* C32 witness: the navigation of a tab was allowed after the assignment had
\* finished and left tabs 1 and 4 exempted
C32_WitnessAllowed ==
  /\ done = { <<"3">> }
  /\ procs = << >>
  /\ nav = << >>
  /\ navCount = 1
  /\ contextMenu = {}
  /\ ExemptedFor(ExampleKey) = << 1, 4 >>
  /\ response = Response(FALSE, "allowed")
  /\ createCalls = << >>


---------------------------------------------------------------------------
(* identityStateGet as a read that may write, checked under SpecHide.      *)

\* C33: when identityStateGet finds no record under
\* identitiesState@@_<cookieStoreId>, it writes a state with an empty
\* hiddenTabs list under that key, changes no other key, and its caller goes
\* on with that empty state; when it finds a record, its caller goes on with
\* the record and the store is left as it was.
C33_GetPersistsDefault ==
  [][ \A i \in DOMAIN procs :
        LET storeKey == getContainerStoreKey(procs[i].cookieStoreId)
        IN  /\ (IdentityStateGet(i) /\ storeKey \in DOMAIN storage)
                 => /\ storage' = storage
                    /\ Len(procs') = Len(procs)
                         => procs'[i].containerState = storage[storeKey]
            /\ (IdentityStateGet(i) /\ storeKey \notin DOMAIN storage)
                 => /\ storage' = storage
                    /\ procs'[i].pc = "stateDefault"
            /\ IdentityStateDefault(i)
                 => /\ storeKey \in DOMAIN storage'
                    /\ storage'[storeKey].hiddenTabs = << >>
                    /\ storeKey = IdentityStoragePrefix \o procs[i].cookieStoreId
                    /\ \A k \in (DOMAIN storage \cup DOMAIN storage') \ {storeKey} :
                         /\ k \in DOMAIN storage /\ k \in DOMAIN storage'
                         /\ storage'[k] = storage[k]
                    /\ Len(procs') = Len(procs)
                         => procs'[i].containerState.hiddenTabs = << >>
    ]_vars

\* C33 witness: the only request so far is a hideTabs for container 3, whose
\* identityStateGet found nothing stored, wrote the empty state and handed
\* it to storeHidden
C33_Witness ==
  /\ opCount = 1
  /\ Len(procs) = 1
  /\ procs[1].kind = "hideTabs"
  /\ procs[1].pc = "storeQuery"
  /\ procs[1].containerState = ContainerState(<< >>)
  /\ storage = getContainerStoreKey(Container3) :> ContainerState(<< >>)

\* C33 witness: the identityStateGet of a hideTabs found the stored record
\* and handed it on, the store as it was
C33_WitnessRecord ==
  /\ opCount = 1
  /\ Len(procs) = 1
  /\ procs[1].kind = "hideTabs"
  /\ procs[1].pc = "storeQuery"
  /\ procs[1].containerState = ContainerState(<< EarlierHidden >>)
  /\ storage = getContainerStoreKey(Container3) :> ContainerState(<< EarlierHidden >>)


---------------------------------------------------------------------------
(* onBeforeRequest for an assignment whose container is gone, with a tab   *)
(* of that container still open: browser.contextualIdentities.remove takes *)
(* the identity away and leaves its tabs open.                             *)

\* tab 1 in container 0, tab 3 left over from container 3
StaleTabs ==
  << Tab(1, 1, Container0, DEFAULT_TAB, FALSE, TRUE, FALSE, NoTab),
     Tab(3, 1, Container3, UrlA, FALSE, FALSE, FALSE, NoTab) >>

\* example.com and a.com are assigned to container 3
StaleStorage ==
  (getSiteStoreKey(UrlExample) :> Assignment(JsString(<<"3">>), TRUE))
    @@ (getSiteStoreKey(UrlA) :> Assignment(JsString(<<"3">>), FALSE))

InitStale ==
  /\ variant \in {1, 2}
  /\ identities = { <<"0">> }
  /\ tabs = StaleTabs
  /\ storage = StaleStorage
  /\ exemptedTabs = << >>
  /\ canceledRequests = << >>
  /\ ledgerTimers = [ t \in NavTabIds |-> 0 ]
  /\ lastCreatedTab = NoTab
  /\ lastCreatedTimers = 0
  /\ unhideQueue = << >>
  /\ nav = << >>
  /\ procs = << >>
  /\ createCalls = << >>
  /\ removeCalls = {}
  /\ response = Response(FALSE, "none")
  /\ navCount = 0
  /\ moveCalls = {}
  /\ nextTabId = 5
  /\ nextWindowId = 2
  /\ nextPid = 1
  /\ opCount = 0
  /\ done = {}
  /\ contextMenu = ContextMenuItems
  /\ externalExtensionAllowed = {}
  /\ management = << >>
  /\ fnIn = << >>
  /\ fnOut = << >>

\* tab 1 navigates to the sites assigned to the container that is gone
NextStale ==
  \/ \E url \in { UrlExample, UrlA }, requestId \in RequestIds :
       NavEvent(1, url, requestId, 0)
  \/ \E i \in 1 .. MaxNav : NavLookup(i)
  \/ \E i \in 1 .. MaxNav : NavContainer(i)
  \/ \E i \in DOMAIN procs : DeleteQuery(i)
  \/ \E i \in DOMAIN procs : DeleteRemove(i)
  \/ \E i \in DOMAIN procs : DeleteIdentityRemove(i)
  \/ \E i \in DOMAIN procs : StorageDeleteGet(i)
  \/ \E i \in DOMAIN procs : StorageDeleteRemove(i)

SpecStale == InitStale /\ [][NextStale]_vars

\* C34: no step of the handling of a navigation whose assignment points at
\* a container that no longer exists closes a tab, removes a contextual
\* identity or changes the cancellation ledger.
C34_StaleHandlingClosesNothing ==
  [][ /\ tabs' = tabs
      /\ identities' = identities
      /\ canceledRequests' = canceledRequests
      /\ ledgerTimers' = ledgerTimers ]_vars

\* C34, what holds: the identities and the ledger are never changed, no
\* request is cancelled and no tab is asked for; the only tabs closed are
\* those of the container that is gone, and variant 2 closes none
C34_ClosesOnlyTabsOfMissingContainer ==
  [][ /\ identities' = identities
      /\ canceledRequests' = canceledRequests
      /\ ledgerTimers' = ledgerTimers
      /\ createCalls' = createCalls
      /\ ~ response'.cancel
      /\ \A k \in DOMAIN tabs :
           tabs[k].id \notin { tabs'[j].id : j \in DOMAIN tabs' }
             => /\ variant = 1
                /\ tabs[k].cookieStoreId = Container3
      /\ variant = 2 => tabs' = tabs ]_vars

\* C34: variant 1 has closed tab 3 while handling the navigation of tab 1
C34_TabClosed ==
  /\ variant = 1
  /\ response = Response(FALSE, "stale")
  /\ OpenTabIds = {1}


---------------------------------------------------------------------------
(* The entries of the unhide queue and the operations that inserted them.  *)

\* C35: while an unhideContainer call that inserted its container into the
\* unhide queue is running, the entry is in the queue: no other operation
\* that finishes takes it out.
C35_RunningUnhideKeepsItsEntry ==
  \A i \in DOMAIN procs :
    procs[i].kind = "unhideContainer"
      => IndexOf(unhideQueue, procs[i].cookieStoreId, 1) # 0

\* C35, what holds: the step in which unhideContainer or moveTabsToWindow
\* finishes changes the queue by the splice at indexOf(cookieStoreId), which
\* takes out the first entry of its container, or the last entry of the
\* queue when its container is not queued
C35_FinishSplices ==
  [][ \A i \in DOMAIN procs :
        (ShowSet(i) \/ MoveSet(i))
          => /\ Len(unhideQueue') >= Len(unhideQueue) - 1
             /\ IndexOf(unhideQueue, procs[i].cookieStoreId, 1) # 0
                  => unhideQueue' = RemoveAt(unhideQueue,
                                       IndexOf(unhideQueue, procs[i].cookieStoreId, 1))
    ]_vars

\* C35: a moveTabsToWindow that found container 3 queued has finished and
\* taken the entry out while the unhideContainer that inserted it is running
C35_EntryOfRunningUnhideRemoved ==
  /\ unhideQueue = << >>
  /\ \E i \in DOMAIN procs :
       procs[i].kind = "unhideContainer" /\ procs[i].cookieStoreId = Container3
  /\ \A i \in DOMAIN procs : procs[i].kind # "moveTabsToWindow"


---------------------------------------------------------------------------
(* Snapshots leaving the persisted hidden tabs, checked under SpecUnhide,  *)
(* where no tab of container 3 is ever closed and no open tab of container *)
(* 3 has the url of a snapshot unless it was created for one.              *)

\* a browser.tabs.create for the snapshot has been issued: the call is
\* pending, or the tab it created is open
IssuedFor(snapshot) ==
  \/ \E k \in DOMAIN createCalls :
       createCalls[k].url = snapshot.url /\ createCalls[k].cookieStoreId = Container3
  \/ \E k \in DOMAIN tabs :
       tabs[k].url = snapshot.url /\ tabs[k].cookieStoreId = Container3

\* C36: a snapshot that is no longer in the persisted hiddenTabs of its
\* container has had a tab creation issued for it.
C36_DroppedSnapshotsWereReopened ==
  \A k \in DOMAIN UnhideHidden :
    UnhideHidden[k] \notin SeqToSet(PersistedHiddenTabs(Container3))
      => IssuedFor(UnhideHidden[k])

\* C36, what holds: when unhideContainer writes the emptied state, a tab
\* creation has been issued for every snapshot its showTabs read
C36_ShowClearsAfterIssuing ==
  [][ \A i \in DOMAIN procs :
        ShowSet(i)
          => \A k \in DOMAIN procs[i].containerState.hiddenTabs :
               IssuedFor(procs[i].containerState.hiddenTabs[k]) ]_vars

\* C36: every call has returned, nothing is pending, the persisted
\* hiddenTabs is empty and no tab was opened for the two snapshots
C36_SnapshotsLost ==
  /\ procs = << >>
  /\ createCalls = << >>
  /\ PersistedHiddenTabs(Container3) = << >>
  /\ \A k \in DOMAIN UnhideHidden : ~ IssuedFor(UnhideHidden[k])


---------------------------------------------------------------------------
(* The timers of the cancellation ledger, checked under SpecNav. An entry  *)
(* is created together with its timer, so with an entry for a tab and more *)
(* than one timer of the tab pending, the entry is the one of the timer    *)
(* set last, and the timer that fires next was set for an earlier entry.   *)

\* C37: a timer that was set for an earlier ledger entry of a tab does not
\* delete the entry the tab has now.
C37_OldTimerSparesNewEntry ==
  [][ \A tabId \in NavTabIds :
        (/\ LedgerTimerFires(tabId)
         /\ ledgerTimers[tabId] > 1
         /\ tabId \in DOMAIN canceledRequests)
          => tabId \in DOMAIN canceledRequests' ]_vars

\* C37, what holds: the ledger entry of a tab is deleted only by a
\* completed or error event for the tab or by a timer set for the tab
C37_DeletedByEventOrTimerOfTab ==
  [][ \A tabId \in DOMAIN canceledRequests :
        tabId \notin DOMAIN canceledRequests'
          => CompletedOrError(tabId) \/ LedgerTimerFires(tabId) ]_vars


---------------------------------------------------------------------------
(* The timers of the last-created-tab slot, checked under SpecMove. The    *)
(* slot is set together with a timer, so with a tab in the slot and more   *)
(* than one timer pending, the tab is the one of the timer set last, and   *)
(* the timer that fires next was set by an earlier tab creation.           *)

\* C38: the timer set by an earlier tab creation does not clear the slot
\* while it holds a tab created later.
C38_OldTimerSparesSlot ==
  [][ (/\ LastCreatedTimerFires
       /\ lastCreatedTimers > 1
       /\ lastCreatedTab # NoTab)
        => lastCreatedTab' = lastCreatedTab ]_vars

\* C38, what holds: the slot changes only when a tab is created, which puts
\* that tab into it, or when a timer fires, which empties it
C38_SlotSetByCreationClearedByTimer ==
  [][ lastCreatedTab' # lastCreatedTab
        => \/ LastCreatedTimerFires /\ lastCreatedTab' = NoTab
           \/ /\ lastCreatedTab' = nextTabId
              /\ lastCreatedTab' \in { tabs'[k].id : k \in DOMAIN tabs' }
              /\ lastCreatedTab' \notin OpenTabIds
              /\ lastCreatedTimers' = lastCreatedTimers + 1 ]_vars


---------------------------------------------------------------------------
(* getSiteStoreKey applied to two urls.                                    *)

PairHosts == { ExampleHost,
               <<"1","0",".","0",".","0",".","1">>,
               <<"1","0",".","0",".","0",".","1","8">> }
PairUrls == [ scheme : KeySchemes, host : PairHosts, port : KeyPorts ]

InitKeyPair ==
  /\ variant \in {1, 2}
  /\ fnIn \in [ first : PairUrls, second : PairUrls ]
  /\ fnOut = NoRecord
  /\ identities = {}
  /\ tabs = << >>
  /\ storage = << >>
  /\ exemptedTabs = << >>
  /\ canceledRequests = << >>
  /\ ledgerTimers = << >>
  /\ lastCreatedTab = NoTab
  /\ lastCreatedTimers = 0
  /\ unhideQueue = << >>
  /\ nav = << >>
  /\ procs = << >>
  /\ createCalls = << >>
  /\ removeCalls = {}
  /\ response = Response(FALSE, "none")
  /\ navCount = 0
  /\ moveCalls = {}
  /\ nextTabId = 5
  /\ nextWindowId = 3
  /\ nextPid = 1
  /\ opCount = 0
  /\ done = {}
  /\ contextMenu = ContextMenuItems
  /\ externalExtensionAllowed = {}
  /\ management = << >>

\* the url written from an input
PairUrl(in) == WriteUrl(in.scheme, in.host, in.port, <<"/">>)

\* getSiteStoreKey is called with each of the two urls
ApplyGetSiteStoreKeyPair ==
  /\ fnOut = NoRecord
  /\ fnOut' = [ first |-> getSiteStoreKey(PairUrl(fnIn.first)),
                second |-> getSiteStoreKey(PairUrl(fnIn.second)) ]
  /\ UNCHANGED << variant, browserVars, navVars, unhideQueue, procs, createCalls,
                  hideVars, done, fnIn, externalVars, contextMenu >>

NextKeyPair == ApplyGetSiteStoreKeyPair

SpecKeyPair == InitKeyPair /\ [][NextKeyPair]_vars

\* the port is none of 80, 443 and the default port of the scheme
OtherPort(url) == UrlPort(url) \notin { << >>, <<"8","0">>, <<"4","4","3">> }

\* C39: two urls whose hostnames differ, or whose hostnames are equal and
\* whose ports differ with at least one port other than 80, 443 and the
\* default, have different site keys.
C39_KeysSeparateSites ==
  fnOut # NoRecord
    => LET a == PairUrl(fnIn.first)
           b == PairUrl(fnIn.second)
       IN  (\/ UrlHostname(a) # UrlHostname(b)
            \/ /\ UrlHostname(a) = UrlHostname(b)
               /\ UrlPort(a) # UrlPort(b)
               /\ OtherPort(a) \/ OtherPort(b))
             => fnOut.first # fnOut.second

\* C39, what holds: the urls of one hostname whose ports differ, one of them
\* other than 80, 443 and the default, have different keys, and so have the
\* urls of two hostnames when neither has such a port
C39_KeysSeparatePortsOfOneHost ==
  fnOut # NoRecord
    => LET a == PairUrl(fnIn.first)
           b == PairUrl(fnIn.second)
       IN  /\ (/\ UrlHostname(a) = UrlHostname(b)
               /\ UrlPort(a) # UrlPort(b)
               /\ OtherPort(a) \/ OtherPort(b))
                => fnOut.first # fnOut.second
           /\ (/\ UrlHostname(a) # UrlHostname(b)
               /\ ~ OtherPort(a) /\ ~ OtherPort(b))
                => fnOut.first # fnOut.second

\* C39: http://10.0.0.1:8/ and http://10.0.0.18/ have the same site key
C39_Collision ==
  /\ fnOut # NoRecord
  /\ fnIn.first = [ scheme |-> HttpProtocol, host |-> <<"1","0",".","0",".","0",".","1">>,
                    port |-> <<"8">> ]
  /\ fnIn.second = [ scheme |-> HttpProtocol,
                     host |-> <<"1","0",".","0",".","0",".","1","8">>, port |-> << >> ]
  /\ fnOut.first = fnOut.second


---------------------------------------------------------------------------
(* Unhiding on tab creation: container 3 has two hidden tabs and no open   *)
(* tab, and no call is running. The user opens a tab in the container;     *)
(* after that further tabs are opened and moveTabsToWindow may be asked    *)
(* for the container.                                                      *)

InitCreate ==
  /\ variant \in {1, 2}
  /\ identities = { <<"3">> }
  /\ tabs = << Tab(5, 1, FirefoxDefault, UrlB, FALSE, TRUE, FALSE, NoTab) >>
  /\ storage = getContainerStoreKey(Container3) :> ContainerState(UnhideHidden)
  /\ exemptedTabs = << >>
  /\ canceledRequests = << >>
  /\ ledgerTimers = << >>
  /\ lastCreatedTab = NoTab
  /\ lastCreatedTimers = 0
  /\ unhideQueue = << >>
  /\ nav = << >>
  /\ procs = << >>
  /\ createCalls = << >>
  /\ removeCalls = {}
  /\ response = Response(FALSE, "none")
  /\ navCount = 0
  /\ moveCalls = {}
  /\ nextTabId = FirstUnhideTabId
  /\ nextWindowId = 3
  /\ nextPid = 1
  /\ opCount = 0
  /\ done = {}
  /\ contextMenu = ContextMenuItems
  /\ externalExtensionAllowed = {}
  /\ management = << >>
  /\ fnIn = << >>
  /\ fnOut = << >>

\* the steps of unhideContainer, of the browser and of the timers
CreateSteps ==
  \/ \E i \in DOMAIN procs : procs[i].kind = "unhideContainer" /\ IdentityStateGet(i)
  \/ \E i \in DOMAIN procs : ShowCreatesDone(i)
  \/ \E i \in DOMAIN procs : ShowSet(i)
  \/ BrowserCreatesTab
  \/ LastCreatedTimerFires

\* the steps of moveTabsToWindow, and of the unhideContainer that the first
\* tab of its new window starts for the default cookie store
CreateMoveSteps ==
  \/ \E i \in DOMAIN procs : IdentityStateDefault(i)
  \/ \E i \in DOMAIN procs : MoveQuery(i)
  \/ \E i \in DOMAIN procs : procs[i].kind = "moveTabsToWindow" /\ IdentityStateGet(i)
  \/ \E i \in DOMAIN procs : MoveWindow(i)
  \/ \E i \in DOMAIN procs : MoveWindowCreated(i)
  \/ \E i \in DOMAIN procs : MoveUpdate(i)
  \/ \E i \in DOMAIN procs : MoveQuery2(i)
  \/ \E i \in DOMAIN procs : MoveSet(i)
  \/ \E call \in moveCalls : BrowserMovesTabs(call)
  \/ \E tabId \in removeCalls : BrowserRemovesTab(tabId)

\* the user opens tabs in container 3 and nothing else is asked for
NextCreateAlone ==
  \/ UserOpensTab(Container3, 1, UrlExample)
  \/ CreateSteps

\* every promise settles and every call asked of the browser is carried out
SpecCreateAlone == InitCreate /\ [][NextCreateAlone]_vars /\ WF_vars(CreateSteps)

\* the first request is the creation of a tab in container 3
NextCreate ==
  \/ UserOpensTab(Container3, 1, UrlExample)
  \/ opCount > 0 /\ MoveTabsToWindowMessage(Container3, 1)
  \/ CreateSteps
  \/ CreateMoveSteps

SpecCreate == InitCreate /\ [][NextCreate]_vars

\* an open tab of container 3 has the url
OpenInContainer3(url) ==
  \E k \in DOMAIN tabs : tabs[k].cookieStoreId = Container3 /\ tabs[k].url = url

\* a tab was created in container 3
CreatedInContainer3 == \E k \in DOMAIN tabs : tabs[k].cookieStoreId = Container3

\* the container is unhidden: the persisted hiddenTabs is empty and a tab is
\* open for every snapshot
Unhidden ==
  /\ PersistedHiddenTabs(Container3) = << >>
  /\ \A k \in DOMAIN UnhideHidden : OpenInContainer3(UnhideHidden[k].url)

\* a tab was created in container 3, and no call is running or pending
UnhideSettled ==
  /\ CreatedInContainer3
  /\ procs = << >>
  /\ createCalls = << >>

\* C40: once the calls that followed the creation of a tab in container 3
\* have run to their end, the container is unhidden.
C40_UnhiddenWhenSettled == UnhideSettled => Unhidden

\* C40, what holds with no moveTabsToWindow asked for: after a tab is created
\* in container 3 the container is unhidden in the end
C40_UnhiddenAfterCreation == CreatedInContainer3 ~> Unhidden

\* C40, what holds: a tab created while the container is in the unhide
\* queue starts no unhide, and a tab created in container 3 while it is not
\* queued starts one
C40_NoSecondUnhide ==
  [][ UserOpensTab(Container3, 1, UrlExample)
        => IF IndexOf(unhideQueue, Container3, 1) # 0
           THEN procs' = procs /\ unhideQueue' = unhideQueue
           ELSE /\ Len(procs') = Len(procs) + 1
                /\ unhideQueue' = Append(unhideQueue, Container3) ]_vars

\* C40: every call has returned, the persisted hiddenTabs is empty and no
\* tab was opened for the two snapshots
C40_SnapshotsNeverReopened ==
  /\ UnhideSettled
  /\ PersistedHiddenTabs(Container3) = << >>
  /\ \A k \in DOMAIN UnhideHidden : ~ OpenInContainer3(UnhideHidden[k].url)

====
